---- MODULE Spec2Model ----
(***************************************************************************)
(* ClassicBloomFX: the registration set of UClassicBloomSubsystem and the  *)
(* render-graph builder FClassicBloomSceneViewExtension::                  *)
(* PostProcessPass_RenderThread (ClassicBloomSubsystem.cpp).               *)
(*                                                                         *)
(* Floats are modelled exactly where the code only compares or rounds      *)
(* them: DownsampleScale is counted in 1/32 (0.25f = 8, 1.0f = 32,         *)
(* 2.0f = 64; every such value is an exact float and 2.0f / s is never     *)
(* within rounding error of a tie), BloomIntensity and BloomThreshold in   *)
(* hundredths.                                                             *)
(***************************************************************************)
EXTENDS Integers, Sequences, FiniteSets, TLC

(***************************************************************************)
(* Bounds of the model                                                     *)
(***************************************************************************)
\* number of UBloomFXComponent objects of the world
NumComps == 2
\* largest width / height of the source valid rectangle, largest offset of
\* the rectangle inside its texture and largest padding after it
MaxWidth == 17
MaxHeight == 2
MaxOffset == 1
MaxPadding == 1
\* largest configured DownsampleScale, in 1/32 (above the clamp at 64)
MaxScale == 66
\* largest configured BlurPasses, GlareStreakCount and KawaseMipCount
\* (each above the code's clamp)
MaxBlurPasses == 5
MaxStreakCount == 17
MaxMipCount == 9

(***************************************************************************)
(* Program constants                                                       *)
(***************************************************************************)
\* FMath::Clamp(DownsampleScale, 0.25f, 2.0f), in 1/32
ScaleMin == 8
ScaleMax == 64
\* the 2.0f of 2.0f / DownsampleScale, in 1/32
ScaleTwo == 64
\* default UBloomFXComponent::DownsampleScale = 1.0f, in 1/32
ScaleDefault == 32
\* EffectiveThreshold = 0.01f for Soft Focus, in hundredths
SoftFocusThreshold == 1
\* default BloomThreshold = 0.8f and BloomIntensity = 2.0f, in hundredths
ThresholdDefault == 80
IntensityDefault == 200
\* defaults of BlurPasses, GlareStreakCount, KawaseMipCount
BlurPassesDefault == 1
StreakCountDefault == 6
MipCountDefault == 5
\* ReinitializeInterval = 1.0f, in tenths of a second
ReinitializeIntervalDefault == 10
\* clamps of BlurPasses, GlareStreakCount, KawaseMipCount
BlurPassesMin == 1
BlurPassesMax == 4
StreakCountMin == 2
StreakCountMax == 16
MipCountMin == 3
MipCountMax == 8

(***************************************************************************)
(* FMath and FIntPoint / FIntRect helpers                                  *)
(***************************************************************************)
Max(a, b) == IF a >= b THEN a ELSE b
Min(a, b) == IF a <= b THEN a ELSE b
\* mutant: a clamp that lets one value above the upper limit through
ClampOneAbove(x, lo, hi) == IF x < lo THEN lo ELSE IF x <= hi THEN x ELSE hi + 1

\* FMath::Clamp
Clamp(x, lo, hi) == IF x < lo THEN lo ELSE IF x < hi THEN x ELSE hi

\* C++ integer division truncates toward zero
TruncDiv(a, b) == IF a >= 0 THEN a \div b ELSE -((-a) \div b)

\* FMath::RoundToInt(a / b) for b > 0: FloorToInt(a / b + 0.5f)
RoundToIntDiv(a, b) == (2 * a + b) \div (2 * b)

\* mutant: the division without the round-up term
DivideTruncating(a, b) == TruncDiv(a, b)

\* FMath::DivideAndRoundUp(a, b) = (a + b - 1) / b
DivideAndRoundUp(a, b) == TruncDiv(a + b - 1, b)

Point(x, y) == [X |-> x, Y |-> y]
ZeroValue == Point(0, 0)
PointDivideAndRoundUp(p, d) == Point(DivideAndRoundUp(p.X, d), DivideAndRoundUp(p.Y, d))

\* FIntRect(Min, Max)
Rect(mn, mx) == [Min |-> mn, Max |-> mx]
Width(r) == r.Max.X - r.Min.X
Height(r) == r.Max.Y - r.Min.Y
RectSize(r) == Point(Width(r), Height(r))

\* FScreenPassTextureViewport(Extent, Rect)
Viewport(extent, rect) == [Extent |-> extent, Rect |-> rect]

(***************************************************************************)
(* FScreenTransform: per axis x |-> x * Scale + Bias, with exact fractions *)
(***************************************************************************)
Frac(n, d) == [N |-> n, D |-> d]
FracMul(a, b) == Frac(a.N * b.N, a.D * b.D)
FracAdd(a, b) == Frac(a.N * b.D + b.N * a.D, a.D * b.D)
FracEq(a, b) == a.N * b.D = b.N * a.D

ScreenTransform(sx, sy, bx, by) ==
    [Scale |-> [X |-> sx, Y |-> sy], Bias |-> [X |-> bx, Y |-> by]]

\* mutant: the change of basis without the rectangle's offset
ChangeTextureBasisNoOffset(vp, SrcBasis, DestBasis) ==
    IF SrcBasis = "TexelPosition" /\ DestBasis = "ViewportUV"
    THEN ScreenTransform(Frac(1, Width(vp.Rect)), Frac(1, Height(vp.Rect)),
                         Frac(0, 1), Frac(0, 1))
    ELSE ScreenTransform(Frac(Width(vp.Rect), vp.Extent.X),
                         Frac(Height(vp.Rect), vp.Extent.Y),
                         Frac(0, 1), Frac(0, 1))

\* FScreenTransform::ChangeTextureBasisFromTo for the two changes the code
\* asks for: TexelPosition -> ViewportUV is (p - Rect.Min) / RectSize, and
\* ViewportUV -> TextureUV is (uv * RectSize + Rect.Min) / Extent
ChangeTextureBasisFromTo(vp, SrcBasis, DestBasis) ==
    IF SrcBasis = "TexelPosition" /\ DestBasis = "ViewportUV"
    THEN ScreenTransform(Frac(1, Width(vp.Rect)), Frac(1, Height(vp.Rect)),
                         Frac(-vp.Rect.Min.X, Width(vp.Rect)),
                         Frac(-vp.Rect.Min.Y, Height(vp.Rect)))
    ELSE ScreenTransform(Frac(Width(vp.Rect), vp.Extent.X),
                         Frac(Height(vp.Rect), vp.Extent.Y),
                         Frac(vp.Rect.Min.X, vp.Extent.X),
                         Frac(vp.Rect.Min.Y, vp.Extent.Y))

\* FScreenTransform operator*: a, then b
TransformMul(a, b) ==
    ScreenTransform(FracMul(a.Scale.X, b.Scale.X), FracMul(a.Scale.Y, b.Scale.Y),
                    FracAdd(FracMul(a.Bias.X, b.Scale.X), b.Bias.X),
                    FracAdd(FracMul(a.Bias.Y, b.Scale.Y), b.Bias.Y))

\* ChangeTextureBasisFromTo(Output, TexelPosition, ViewportUV)
\*   * ChangeTextureBasisFromTo(Source, ViewportUV, TextureUV)
SvPositionToTextureUV(OutputViewport, SourceViewport) ==
    TransformMul(ChangeTextureBasisFromTo(OutputViewport, "TexelPosition", "ViewportUV"),
                 ChangeTextureBasisFromTo(SourceViewport, "ViewportUV", "TextureUV"))

(***************************************************************************)
(* Textures, pixel programs, components                                    *)
(***************************************************************************)
\* an FRDGTextureRef: the debug name given to CreateTexture and its index
Tex(name, idx) == [Name |-> name, Idx |-> idx]
NullTex == Tex("nullptr", 0)
SceneColorTex == Tex("SceneColor", 0)
OverrideTex == Tex("OverrideOutput", 0)

\* the seven global pixel shaders of ClassicBloomShaders.cpp
ShaderNames ==
    {"BrightPassPS", "BlurPS", "CompositePS", "GlareStreakPS",
     "GlareAccumulatePS", "KawaseDownsamplePS", "KawaseUpsamplePS"}

\* EBloomMode
BloomModes == {"Standard", "DirectionalGlare", "Kawase", "SoftFocus"}

Comp == 1..NumComps
\* a null UBloomFXComponent*
NoComp == 0

VARIABLES
    BloomComponents,  \* UClassicBloomSubsystem::BloomComponents, in array order
    alive,            \* alive[c]: the UObject of component c still exists
    comps,            \* comps[c]: the properties of component c
    lastOp,           \* the last call made on the subsystem or its view extension
    frame,            \* what the last PostProcessPass_RenderThread call did
    iter,             \* the rendering thread's ranged-for over BloomComponents
    InOutPassCallbacks \* per insertion point, the view's after-pass callbacks

vars == <<BloomComponents, alive, comps, lastOp, frame, iter, InOutPassCallbacks>>

\* the properties of a UBloomFXComponent the rendering code reads
DefaultComp ==
    [bIsActive |-> TRUE,
     BloomIntensity |-> IntensityDefault,
     BloomMode |-> "Standard",
     BloomThreshold |-> ThresholdDefault,
     DownsampleScale |-> ScaleDefault,
     BlurPasses |-> BlurPassesDefault,
     GlareStreakCount |-> StreakCountDefault,
     KawaseMipCount |-> MipCountDefault,
     PostProcessPass |-> "Tonemap",
     bEnableDebugLogging |-> FALSE,
     bAutoReinitializeRect |-> FALSE,
     ReinitializeInterval |-> ReinitializeIntervalDefault,
     bReinitializeRect |-> FALSE,
     ReinitializeTimer |-> 0]

Range(s) == {s[i] : i \in 1..Len(s)}


(***************************************************************************)
(* Effect selection: the ranged-for of PostProcessPass_RenderThread        *)
(***************************************************************************)
\* mutant: the weak pointer is never tested
IsValidAlways(c, al) == TRUE

\* CompPtr.IsValid(): the weak pointer's object still exists
IsValid(c, al) == al[c]

\* CompPtr->IsActive(), which dereferences the component
IsActive(c, cs) == cs[c].bIsActive

\* The loop from array position i on: the component selected, the positions
\* whose weak pointer was tested and the positions that were dereferenced.
RECURSIVE ScanFrom(_, _, _, _)
ScanFrom(arr, al, cs, i) ==
    IF i > Len(arr)
    THEN [Active |-> NoComp, Tested |-> <<>>, Dereferenced |-> <<>>]
    ELSE IF ~IsValid(arr[i], al)
    THEN LET rest == ScanFrom(arr, al, cs, i + 1)
         IN [rest EXCEPT !.Tested = <<i>> \o @]
    ELSE IF IsActive(arr[i], cs)
    THEN [Active |-> arr[i], Tested |-> <<i>>, Dereferenced |-> <<i>>]
    ELSE LET rest == ScanFrom(arr, al, cs, i + 1)
         IN [rest EXCEPT !.Tested = <<i>> \o @, !.Dereferenced = <<i>> \o @]

FindActiveComponent(arr, al, cs) == ScanFrom(arr, al, cs, 1)

NoSelection == [Active |-> NoComp, Tested |-> <<>>, Dereferenced |-> <<>>]

(***************************************************************************)
(* Viewport sizing (Step 1 of PostProcessPass_RenderThread)                *)
(***************************************************************************)
ClampedDownsampleScale(c) == Clamp(c.DownsampleScale, ScaleMin, ScaleMax)

\* mutant: the quotient truncated instead of rounded
DivisorTruncated(c) == Max(1, ScaleTwo \div ClampedDownsampleScale(c))

\* int32 Divisor = FMath::Max(1, FMath::RoundToInt(2.0f / DownsampleScale))
Divisor(c) == Max(1, RoundToIntDiv(ScaleTwo, ClampedDownsampleScale(c)))

DownsampledExtent(c, ViewRect) == PointDivideAndRoundUp(RectSize(ViewRect), Divisor(c))

DownsampledRect(c, ViewRect) == Rect(ZeroValue, DownsampledExtent(c, ViewRect))

(***************************************************************************)
(* The render graph under construction: the textures created and the       *)
(* passes added, each in call order, and BlurredBloomTexture               *)
(***************************************************************************)
EmptyGraph == [Textures |-> <<>>, Passes |-> <<>>, Blurred |-> NullTex]

\* GraphBuilder.CreateTexture(Desc, Name)
Texture(tex, extent) == [Tex |-> tex, Extent |-> extent]

\* FPixelShaderUtils::AddFullscreenPass: the program, the textures bound for
\* reading, RenderTargets[0], the rectangle drawn and the other parameters
Pass(name, idx, shader, reads, target, rect, params) ==
    [Name |-> name, Idx |-> idx, Shader |-> shader, Reads |-> reads,
     Target |-> target, Rect |-> rect, Params |-> params]

CreateTexture(g, tex, extent) ==
    [g EXCEPT !.Textures = Append(@, Texture(tex, extent))]

AddFullscreenPass(g, pass) == [g EXCEPT !.Passes = Append(@, pass)]

\* TShaderMapRef<...>::IsValid()
ShaderIsValid(in, shader) == shader \in in.Shaders

BrightPassTexture == Tex("ClassicBloom.BrightPass", 0)

\* mutant: the configured threshold in every mode
EffectiveThresholdConfigured(c) == c.BloomThreshold

\* Soft focus captures the whole scene with a very low threshold
EffectiveThreshold(c) ==
    IF c.BloomMode = "SoftFocus" THEN SoftFocusThreshold ELSE c.BloomThreshold

BrightPass(c, in) ==
    Pass("BrightPass", 0, "BrightPassPS", <<SceneColorTex>>, BrightPassTexture,
         DownsampledRect(c, in.ViewRect),
         [BloomThreshold |-> EffectiveThreshold(c),
          OutputViewport |-> Viewport(DownsampledExtent(c, in.ViewRect),
                                      DownsampledRect(c, in.ViewRect)),
          InputViewport |-> Viewport(in.Extent, in.ViewRect),
          SvPositionToInputTextureUV |->
              SvPositionToTextureUV(Viewport(DownsampledExtent(c, in.ViewRect),
                                             DownsampledRect(c, in.ViewRect)),
                                    Viewport(in.Extent, in.ViewRect))])

\* a FClassicBloomBlurPS pass; its TShaderMapRef is used without IsValid()
BlurPass(name, idx, c, in, source, target, dir, radiusPct) ==
    Pass(name, idx, "BlurPS", <<source>>, target, DownsampledRect(c, in.ViewRect),
         [BlurDirection |-> dir, BlurRadiusPct |-> radiusPct])


(***************************************************************************)
(* Directional glare                                                       *)
(***************************************************************************)
\* mutant: the configured count taken as it is
NumStreaksUnclamped(c) == c.GlareStreakCount

\* int32 NumStreaks = FMath::Clamp(ActiveComponent->GlareStreakCount, 2, 16)
NumStreaks(c) == Clamp(c.GlareStreakCount, StreakCountMin, StreakCountMax)

StreakTexture(i) == Tex("ClassicBloom.Streak", i)

\* StreakTextures[k] of a TArray holding n textures
StreakAt(n, k) == IF k >= 0 /\ k < n THEN StreakTexture(k) ELSE Tex("OutOfRange", k)

\* for (i = 0; i < NumStreaks; ++i): one texture and one streak pass each
GlareStreakPasses(g, c, in) ==
    [g EXCEPT
        !.Textures = @ \o [i \in 1..NumStreaks(c) |->
            Texture(StreakTexture(i - 1), DownsampledExtent(c, in.ViewRect))],
        !.Passes = @ \o [i \in 1..NumStreaks(c) |->
            Pass("GlareStreak", i - 1, "GlareStreakPS", <<BrightPassTexture>>,
                 StreakTexture(i - 1), DownsampledRect(c, in.ViewRect),
                 [StreakIndex |-> i - 1, NumStreaks |-> NumStreaks(c)])]]

GlareAccumTexture(i) == Tex("ClassicBloom.GlareAccum", i)

\* the first accumulation pass: streaks 0..3, absent ones padded by streak 0
GlareAccumulateFirst(g, c, in) ==
    LET n == NumStreaks(c)
        StreaksToProcess == Min(n, 4)
        reads == <<StreakAt(n, 0),
                   IF StreaksToProcess >= 2 THEN StreakAt(n, 1) ELSE StreakAt(n, 0),
                   IF StreaksToProcess >= 3 THEN StreakAt(n, 2) ELSE StreakAt(n, 0),
                   IF StreaksToProcess >= 4 THEN StreakAt(n, 3) ELSE StreakAt(n, 0)>>
    IN AddFullscreenPass(
           CreateTexture(g, GlareAccumTexture(0), DownsampledExtent(c, in.ViewRect)),
           Pass("GlareAccumulate", 0, "GlareAccumulatePS", reads, GlareAccumTexture(0),
                DownsampledRect(c, in.ViewRect), [NumStreaks |-> StreaksToProcess]))

\* mutant: a batch takes two streaks at most
StreaksInBatchTwo(n, BatchStart) == Min(2, n - BatchStart)

\* int32 StreaksInBatch = FMath::Min(3, NumStreaks - BatchStart)
StreaksInBatch(n, BatchStart) == Min(3, n - BatchStart)

\* for (BatchStart = 4; BatchStart < NumStreaks; BatchStart += 3); the result
\* is the graph and the last accumulation texture
RECURSIVE GlareAccumulateBatches(_, _, _, _, _)
GlareAccumulateBatches(g, c, in, BatchStart, PrevAccum) ==
    IF BatchStart >= NumStreaks(c)
    THEN [Graph |-> g, Accum |-> PrevAccum]
    ELSE LET n == NumStreaks(c)
             NextAccum == GlareAccumTexture(BatchStart)
             InBatch == StreaksInBatch(n, BatchStart)
             reads == <<PrevAccum,
                        StreakAt(n, BatchStart),
                        IF InBatch >= 2 THEN StreakAt(n, BatchStart + 1)
                                               ELSE StreakAt(n, BatchStart),
                        IF InBatch >= 3 THEN StreakAt(n, BatchStart + 2)
                                               ELSE StreakAt(n, BatchStart)>>
             g2 == AddFullscreenPass(
                       CreateTexture(g, NextAccum, DownsampledExtent(c, in.ViewRect)),
                       Pass("GlareAccumulate", BatchStart, "GlareAccumulatePS", reads,
                            NextAccum, DownsampledRect(c, in.ViewRect),
                            [NumStreaks |-> 1 + InBatch]))
         IN GlareAccumulateBatches(g2, c, in, BatchStart + 3, NextAccum)

GlareBlurTemp == Tex("ClassicBloom.GlareBlurTemp", 0)
GlareBlurred == Tex("ClassicBloom.GlareBlurred", 0)

\* the light Gaussian blur of the accumulated glare (radius BloomSize * 0.05)
GlareBlur(g, c, in, AccumTexture) ==
    LET g1 == CreateTexture(g, GlareBlurTemp, DownsampledExtent(c, in.ViewRect))
        g2 == CreateTexture(g1, GlareBlurred, DownsampledExtent(c, in.ViewRect))
        g3 == AddFullscreenPass(g2,
                  BlurPass("GlareBlurH", 0, c, in, AccumTexture, GlareBlurTemp, "H", 5))
        g4 == AddFullscreenPass(g3,
                  BlurPass("GlareBlurV", 0, c, in, GlareBlurTemp, GlareBlurred, "V", 5))
    IN [g4 EXCEPT !.Blurred = GlareBlurred]

\* if (bUseDirectionalGlare) { ... }
DirectionalGlare(g, c, in) ==
    IF c.BloomMode # "DirectionalGlare" THEN g
    ELSE IF ~ShaderIsValid(in, "GlareStreakPS") THEN g
    ELSE LET g1 == GlareStreakPasses(g, c, in)
         IN IF ShaderIsValid(in, "GlareAccumulatePS")
            THEN LET g2 == GlareAccumulateFirst(g1, c, in)
                     acc == IF NumStreaks(c) > 4
                            THEN GlareAccumulateBatches(g2, c, in, 4, GlareAccumTexture(0))
                            ELSE [Graph |-> g2, Accum |-> GlareAccumTexture(0)]
                 IN GlareBlur(acc.Graph, c, in, acc.Accum)
            ELSE g1


(***************************************************************************)
(* Kawase bloom                                                            *)
(***************************************************************************)
\* mutant: the configured mip count taken as it is
MipCountUnclamped(c) == c.KawaseMipCount

\* int32 MipCount = FMath::Clamp(ActiveComponent->KawaseMipCount, 3, 8)
MipCount(c) == Clamp(c.KawaseMipCount, MipCountMin, MipCountMax)

MipTexture(i) == Tex("ClassicBloom.KawaseMip", i)
UpsampleTexture(i) == Tex("ClassicBloom.KawaseUpsample", i)
KawaseBlurred == Tex("ClassicBloom.KawaseBlurred", 0)

\* mutant: the halving rounds down
HalveExtentTruncating(extent) ==
    Point(Max(extent.X \div 2, 1), Max(extent.Y \div 2, 1))

\* one step of the mip-size loop: halve, rounding up, at least 1 x 1
HalveExtent(extent) ==
    Point(Max(DivideAndRoundUp(extent.X, 2), 1), Max(DivideAndRoundUp(extent.Y, 2), 1))

HalveRect(rect) ==
    Rect(ZeroValue,
         Point(Max(DivideAndRoundUp(Width(rect), 2), 1),
               Max(DivideAndRoundUp(Height(rect), 2), 1)))

\* MipExtents / MipRects: the n levels below (CurrentExtent, CurrentRect)
RECURSIVE MipChain(_, _, _)
MipChain(CurrentExtent, CurrentRect, n) ==
    IF n <= 0 THEN <<>>
    ELSE <<Viewport(HalveExtent(CurrentExtent), HalveRect(CurrentRect))>>
         \o MipChain(HalveExtent(CurrentExtent), HalveRect(CurrentRect), n - 1)

Mips(c, in) ==
    MipChain(DownsampledExtent(c, in.ViewRect), DownsampledRect(c, in.ViewRect), MipCount(c))

\* the mip textures, created in the mip-size loop
KawaseMipTextures(g, c, in) ==
    [g EXCEPT !.Textures = @ \o [i \in 1..MipCount(c) |->
        Texture(MipTexture(i - 1), Mips(c, in)[i].Extent)]]

\* mutant: the first level samples the bright-pass result
DownsampleSourceBrightPass(Mip) ==
    IF Mip = 0 THEN BrightPassTexture ELSE MipTexture(Mip - 1)

\* DownsampleSource at level Mip: SceneColor.Texture before the loop, then
\* DownsampleSource = MipTextures[Mip] at the end of each iteration
DownsampleSource(Mip) ==
    IF Mip = 0 THEN SceneColorTex ELSE MipTexture(Mip - 1)

\* DOWNSAMPLE PASS: mip 0 samples the scene color, mip i samples mip i - 1
KawaseDownsamplePasses(g, c, in) ==
    [g EXCEPT !.Passes = @ \o [i \in 1..MipCount(c) |->
        Pass("KawaseDownsample_Mip", i - 1, "KawaseDownsamplePS",
             <<DownsampleSource(i - 1)>>,
             MipTexture(i - 1), Mips(c, in)[i].Rect,
             [MipLevel |-> i - 1,
              bUseKarisAverage |-> IF i - 1 = 0 THEN 1 ELSE 0,
              BloomThreshold |-> c.BloomThreshold,
              OutputViewport |-> Mips(c, in)[i],
              SourceViewport |-> IF i = 1 THEN Viewport(in.Extent, in.ViewRect)
                                          ELSE Mips(c, in)[i - 1],
              SvPositionToSourceUV |->
                  SvPositionToTextureUV(Mips(c, in)[i],
                                        IF i = 1 THEN Viewport(in.Extent, in.ViewRect)
                                                 ELSE Mips(c, in)[i - 1])])]]

\* the upsample targets, created for Mip = MipCount - 2 down to 0
KawaseUpsampleTextures(g, c, in) ==
    [g EXCEPT !.Textures = @ \o [j \in 1..(MipCount(c) - 1) |->
        Texture(UpsampleTexture(MipCount(c) - 1 - j), Mips(c, in)[MipCount(c) - j].Extent)]]

\* mutant: every upsample pass samples the downsample mip one level up
UpsampleSourceUnchained(n, Mip) == MipTexture(Mip + 1)

\* UpsampleSource at level Mip of n levels: MipTextures[MipCount - 1] before
\* the loop, then UpsampleSource = UpsampleTextures[UpsampleIdx] at the end of
\* each iteration
UpsampleSource(n, Mip) ==
    IF Mip = n - 2 THEN MipTexture(n - 1) ELSE UpsampleTexture(Mip + 1)

\* UPSAMPLE PASS: the j-th pass (UpsampleIdx = j - 1) is for Mip = MipCount - 1 - j
KawaseUpsamplePasses(g, c, in) ==
    [g EXCEPT !.Passes = @ \o [j \in 1..(MipCount(c) - 1) |->
        LET Mip == MipCount(c) - 1 - j
        IN Pass("KawaseUpsample_Mip", Mip, "KawaseUpsamplePS",
                <<UpsampleSource(MipCount(c), Mip), MipTexture(Mip)>>, UpsampleTexture(Mip),
                Mips(c, in)[Mip + 1].Rect,
                [OutputSize |-> Mips(c, in)[Mip + 1].Extent])]]

\* mutant: no final pass, the chain's last output is the bloom result
KawaseFinalSkipped(g, c, in) == [g EXCEPT !.Blurred = UpsampleTexture(0)]

\* the final upsample to the bright-pass size, or the fallbacks of its else
KawaseFinal(g, c, in) ==
    IF MipCount(c) - 1 > 0
    THEN LET g1 == CreateTexture(g, KawaseBlurred, DownsampledExtent(c, in.ViewRect))
             g2 == AddFullscreenPass(g1,
                       Pass("KawaseUpsample_Final", 0, "KawaseUpsamplePS",
                            <<UpsampleTexture(0), MipTexture(0)>>, KawaseBlurred,
                            DownsampledRect(c, in.ViewRect),
                            [OutputSize |-> DownsampledExtent(c, in.ViewRect)]))
         IN [g2 EXCEPT !.Blurred = KawaseBlurred]
    ELSE [g EXCEPT !.Blurred = IF MipCount(c) > 0 THEN MipTexture(0) ELSE BrightPassTexture]

\* mutant: && in place of ||
KawaseShadersBothMissing(in) ==
    ~ShaderIsValid(in, "KawaseDownsamplePS") /\ ~ShaderIsValid(in, "KawaseUpsamplePS")

\* if (!KawaseDownsampleShader.IsValid() || !KawaseUpsampleShader.IsValid())
KawaseShadersMissing(in) ==
    ~ShaderIsValid(in, "KawaseDownsamplePS") \/ ~ShaderIsValid(in, "KawaseUpsamplePS")

\* if (bUseKawaseBloom && !BlurredBloomTexture) { ... }
KawaseBloom(g, c, in) ==
    IF ~(c.BloomMode = "Kawase" /\ g.Blurred = NullTex) THEN g
    ELSE IF KawaseShadersMissing(in)
    THEN g
    ELSE KawaseFinal(
             KawaseUpsamplePasses(
                 KawaseUpsampleTextures(
                     KawaseDownsamplePasses(KawaseMipTextures(g, c, in), c, in),
                     c, in),
                 c, in),
             c, in)

(***************************************************************************)
(* Standard Gaussian blur (and the fallback of the other modes)            *)
(***************************************************************************)
\* mutant: the configured pass count taken as it is
NumBlurPassesUnclamped(c) == c.BlurPasses

\* int32 NumBlurPasses = FMath::Clamp(ActiveComponent->BlurPasses, 1, 4)
NumBlurPasses(c) == Clamp(c.BlurPasses, BlurPassesMin, BlurPassesMax)

\* mutant: the chain blurs in place, with no temporary buffer of its own
BlurTempAliased == Tex("ClassicBloom.Blurred", 0)

BlurTempTexture == Tex("ClassicBloom.BlurTemp", 0)
BlurredTexture == Tex("ClassicBloom.Blurred", 0)

\* for (PassIndex = 0; PassIndex < NumBlurPasses; ++PassIndex): pass 2k - 1 of
\* the loop is horizontal, pass 2k vertical
StandardBlurPasses(g, c, in) ==
    [g EXCEPT !.Passes = @ \o [k \in 1..(2 * NumBlurPasses(c)) |->
        IF k % 2 = 1
        THEN BlurPass("BlurHorizontal", (k - 1) \div 2, c, in,
                      IF k = 1 THEN BrightPassTexture ELSE BlurredTexture,
                      BlurTempTexture, "H", 10)
        ELSE BlurPass("BlurVertical", (k - 1) \div 2, c, in,
                      BlurTempTexture, BlurredTexture, "V", 10)]]

\* if (!BlurredBloomTexture) { ... }
StandardBlur(g, c, in) ==
    IF g.Blurred # NullTex THEN g
    ELSE LET g1 == CreateTexture(g, BlurTempTexture, DownsampledExtent(c, in.ViewRect))
             g2 == CreateTexture(g1, BlurredTexture, DownsampledExtent(c, in.ViewRect))
         IN [StandardBlurPasses(g2, c, in) EXCEPT !.Blurred = BlurredTexture]

(***************************************************************************)
(* Composite                                                               *)
(***************************************************************************)
OutputTexture == Tex("ClassicBloom.Output", 0)

\* mutant: the override output is not looked at
OutputAlwaysNew(in) ==
    [Texture |-> OutputTexture, Extent |-> in.Extent, ViewRect |-> in.ViewRect]

\* FScreenPassRenderTarget Output: Inputs.OverrideOutput if valid, else a new
\* texture with the scene color's description and view rectangle
OutputTarget(in) ==
    IF in.OverrideOutput.Valid
    THEN [Texture |-> OverrideTex, Extent |-> in.OverrideOutput.Extent,
          ViewRect |-> in.OverrideOutput.ViewRect]
    ELSE [Texture |-> OutputTexture, Extent |-> in.Extent, ViewRect |-> in.ViewRect]

CreateOutput(g, in) ==
    IF in.OverrideOutput.Valid THEN g ELSE CreateTexture(g, OutputTexture, in.Extent)

CompositePass(g, c, in) ==
    Pass("CompositeBloom", 0, "CompositePS", <<SceneColorTex, g.Blurred>>,
         OutputTarget(in).Texture, OutputTarget(in).ViewRect,
         [BloomIntensity |-> IF c.BloomMode = "SoftFocus" THEN 0 ELSE c.BloomIntensity,
          SoftFocusIntensity |-> IF c.BloomMode = "SoftFocus" THEN c.BloomIntensity ELSE 0,
          OutputViewport |-> Viewport(OutputTarget(in).Extent, OutputTarget(in).ViewRect),
          SceneColorViewport |-> Viewport(in.Extent, in.ViewRect),
          BloomViewport |-> Viewport(DownsampledExtent(c, in.ViewRect),
                                     DownsampledRect(c, in.ViewRect)),
          SvPositionToSceneColorUV |->
              SvPositionToTextureUV(
                  Viewport(OutputTarget(in).Extent, OutputTarget(in).ViewRect),
                  Viewport(in.Extent, in.ViewRect)),
          SvPositionToBloomUV |->
              SvPositionToTextureUV(
                  Viewport(OutputTarget(in).Extent, OutputTarget(in).ViewRect),
                  Viewport(DownsampledExtent(c, in.ViewRect),
                           DownsampledRect(c, in.ViewRect)))])


(***************************************************************************)
(* FClassicBloomSceneViewExtension::PostProcessPass_RenderThread           *)
(***************************************************************************)
\* FScreenPassTexture
ScreenPassTexture(tex, rect) == [Texture |-> tex, ViewRect |-> rect]

\* what a call did: where it returned, the texture returned, the component
\* selection and the graph built up to the return
FrameResult(exit, ret, in, sel, c, g) ==
    [Exit |-> exit, Ret |-> ret, In |-> in, Selection |-> sel, Comp |-> c,
     Textures |-> g.Textures, Passes |-> g.Passes, Blurred |-> g.Blurred]

\* mutant: the early return hands back the output target
ReturnOutput(exit, in, sel, c, g) ==
    FrameResult(exit, ScreenPassTexture(OutputTarget(in).Texture, OutputTarget(in).ViewRect),
                in, sel, c, g)

\* return SceneColor;
ReturnSceneColor(exit, in, sel, c, g) ==
    FrameResult(exit, ScreenPassTexture(in.SceneColorTexture, in.ViewRect), in, sel, c, g)

\* the component as the code sees it when it reads BloomMode as mode
WithMode(c, mode) == [c EXCEPT !.BloomMode = mode]

\* the four reads of ActiveComponent->BloomMode all giving the same value
ModeReadOnce(c) ==
    [Threshold |-> c.BloomMode, Glare |-> c.BloomMode, Kawase |-> c.BloomMode,
     SoftFocus |-> c.BloomMode]

\* Everything from RDG_EVENT_SCOPE on, for the selected component c. The code
\* reads ActiveComponent->BloomMode four times: for bIsSoftFocusMode (the
\* threshold), bUseDirectionalGlare, bUseKawaseBloom and bUseSoftFocus (the
\* composite); m holds the value each read gave.
BuildGraphWithModes(in, sel, c, m) ==
    IF Width(in.ViewRect) <= 0 \/ Height(in.ViewRect) <= 0
    THEN ReturnSceneColor("InvalidViewRect", in, sel, c, EmptyGraph)
    ELSE IF Width(DownsampledRect(c, in.ViewRect)) <= 0
            \/ Height(DownsampledRect(c, in.ViewRect)) <= 0
    THEN ReturnSceneColor("InvalidDownsampledRect", in, sel, c, EmptyGraph)
    ELSE LET g0 == CreateTexture(EmptyGraph, BrightPassTexture,
                                 DownsampledExtent(c, in.ViewRect))
         IN IF ~ShaderIsValid(in, "BrightPassPS")
            THEN ReturnSceneColor("NoBrightPassShader", in, sel, c, g0)
            ELSE LET g1 == AddFullscreenPass(g0, BrightPass(WithMode(c, m.Threshold), in))
                     g2 == DirectionalGlare(g1, WithMode(c, m.Glare), in)
                     g3 == KawaseBloom(g2, WithMode(c, m.Kawase), in)
                     g4 == StandardBlur(g3, c, in)
                     g5 == CreateOutput(g4, in)
                 IN IF ~ShaderIsValid(in, "CompositePS")
                    THEN ReturnSceneColor("NoCompositeShader", in, sel, c, g5)
                    ELSE FrameResult("Rendered",
                             ScreenPassTexture(OutputTarget(in).Texture,
                                               OutputTarget(in).ViewRect),
                             in, sel, c,
                             AddFullscreenPass(g5,
                                 CompositePass(g5, WithMode(c, m.SoftFocus), in)))

\* the graph of a call during which the component is not edited
BuildGraph(in, sel, c) == BuildGraphWithModes(in, sel, c, ModeReadOnce(c))

\* mutant: the wireframe flag is not looked at
ShowFlagsSkipNoWireframe(in) == ~in.Rendering \/ ~in.PostProcessing

\* special view types that should not have bloom
IsSpecialView(in) == in.bIsReflectionCapture \/ in.bIsSceneCapture \/ ~in.bIsViewInfo

\* engine show flags: rendering or post-processing off, or wireframe on
ShowFlagsSkip(in) == ~in.Rendering \/ ~in.PostProcessing \/ in.Wireframe

PostProcessPass_RenderThread(in, arr, al, cs) ==
    IF in.SceneColorTexture = NullTex
    THEN ReturnSceneColor("InvalidSceneColor", in, NoSelection, DefaultComp, EmptyGraph)
    ELSE IF IsSpecialView(in)
    THEN ReturnSceneColor("SpecialView", in, NoSelection, DefaultComp, EmptyGraph)
    ELSE IF ShowFlagsSkip(in)
    THEN ReturnSceneColor("ShowFlags", in, NoSelection, DefaultComp, EmptyGraph)
    ELSE IF ~in.ShaderMap
    THEN ReturnSceneColor("NoShaderMap", in, NoSelection, DefaultComp, EmptyGraph)
    ELSE IF ~in.Subsystem
    THEN ReturnSceneColor("NoSubsystem", in, NoSelection, DefaultComp, EmptyGraph)
    ELSE LET sel == FindActiveComponent(arr, al, cs)
         IN IF sel.Active = NoComp
            THEN ReturnSceneColor("NoActiveEffect", in, sel, DefaultComp, EmptyGraph)
            ELSE IF cs[sel.Active].BloomIntensity <= 0
            THEN ReturnSceneColor("NoActiveEffect", in, sel, cs[sel.Active], EmptyGraph)
            ELSE BuildGraph(in, sel, cs[sel.Active])

(***************************************************************************)
(* Per-frame inputs                                                        *)
(***************************************************************************)
NoOverride == [Valid |-> FALSE, Extent |-> ZeroValue, ViewRect |-> Rect(ZeroValue, ZeroValue)]

\* a view rectangle of size w x h at offset (o, o) in a texture that extends
\* p pixels past it
SourceRect(o, w, h) == Rect(Point(o, o), Point(o + w, o + h))
SourceExtent(o, w, h, p) == Point(o + w + p, o + h + p)

\* a standard viewport view with everything available
BaseInput ==
    [SceneColorTexture |-> SceneColorTex,
     Extent |-> SourceExtent(1, 4, 2, 1),
     ViewRect |-> SourceRect(1, 4, 2),
     bIsReflectionCapture |-> FALSE,
     bIsSceneCapture |-> FALSE,
     bIsViewInfo |-> TRUE,
     Rendering |-> TRUE,
     PostProcessing |-> TRUE,
     Wireframe |-> FALSE,
     ShaderMap |-> TRUE,
     Subsystem |-> TRUE,
     Shaders |-> ShaderNames,
     OverrideOutput |-> NoOverride]


(***************************************************************************)
(* UClassicBloomSubsystem: the registration set                            *)
(***************************************************************************)
\* mutant: TArray::Add, without the search
AddAlways(arr, c) == Append(arr, c)

\* TArray::AddUnique
AddUnique(arr, c) == IF c \in Range(arr) THEN arr ELSE Append(arr, c)

\* TArray::Remove: removes every element equal to c, keeping the order
Remove(arr, c) == SelectSeq(arr, LAMBDA x : x # c)

Op(name, c) == [Op |-> name, Comp |-> c]

NoFrame == [Exit |-> "None"]

\* EPostProcessingPass: the insertion points the engine offers
PassIds == {"SSRInput", "MotionBlur", "Tonemap", "FXAA", "VisualizeDepthOfField"}

\* a view's callback arrays before any extension has subscribed
NoCallbacks == [p \in PassIds |-> <<>>]

IterIdle ==
    [pc |-> "idle", Pos |-> 0, End |-> 0, Dangling |-> FALSE, BadRead |-> FALSE,
     Active |-> NoComp]

\* a caller holds either nullptr or a component that still exists
RegisterBloomComponent(c) ==
    /\ IF c = NoComp THEN TRUE ELSE alive[c]
    /\ BloomComponents' = IF c # NoComp THEN AddUnique(BloomComponents, c)
                                        ELSE BloomComponents
    /\ UNCHANGED <<alive, comps>>

UnregisterBloomComponent(c) ==
    /\ IF c = NoComp THEN TRUE ELSE alive[c]
    /\ BloomComponents' = IF c # NoComp THEN Remove(BloomComponents, c)
                                        ELSE BloomComponents
    /\ UNCHANGED <<alive, comps>>

\* the component object is destroyed; the weak pointers to it go stale
DestroyComponent(c) ==
    /\ alive[c]
    /\ alive' = [alive EXCEPT ![c] = FALSE]
    /\ UNCHANGED <<BloomComponents, comps>>

\* the owner activates or deactivates the component
SetActive(c, b) ==
    /\ alive[c]
    /\ comps[c].bIsActive # b
    /\ comps' = [comps EXCEPT ![c].bIsActive = b]
    /\ UNCHANGED <<BloomComponents, alive>>

\* the owner edits BloomIntensity
SetBloomIntensity(c, v) ==
    /\ alive[c]
    /\ comps[c].BloomIntensity # v
    /\ comps' = [comps EXCEPT ![c].BloomIntensity = v]
    /\ UNCHANGED <<BloomComponents, alive>>

\* One whole call of the pass callback on the rendering thread. The graph of
\* a frame is transient: frame holds it until EndFrame.
RenderFrame(in) ==
    /\ frame = NoFrame
    /\ frame' = PostProcessPass_RenderThread(in, BloomComponents, alive, comps)
    /\ UNCHANGED <<BloomComponents, alive, comps, lastOp, iter, InOutPassCallbacks>>

\* the frame's graph has been executed and its resources freed
EndFrame ==
    /\ frame # NoFrame
    /\ frame' = NoFrame
    /\ UNCHANGED <<BloomComponents, alive, comps, lastOp, iter, InOutPassCallbacks>>

\* a game-thread step taken between two calls of the pass callback
BetweenFrames == frame = NoFrame /\ UNCHANGED <<frame, lastOp, iter, InOutPassCallbacks>>

\* a step of the subsystem's interface, recorded in lastOp
Recorded(name, c) ==
    lastOp' = Op(name, c) /\ UNCHANGED <<frame, iter, InOutPassCallbacks>>

(***************************************************************************)
(* Spec: the registration set and the components over time, with frames    *)
(* rendered in between                                                     *)
(***************************************************************************)
IntensityValues == {-IntensityDefault, 0, IntensityDefault}

ValidOverride(o, w, h, p) ==
    [Valid |-> TRUE, Extent |-> SourceExtent(o, w, h, p), ViewRect |-> SourceRect(o, w, h)]

MainInputs == {BaseInput, [BaseInput EXCEPT !.OverrideOutput = ValidOverride(0, 4, 2, 0)]}

Init ==
    /\ BloomComponents = <<>>
    /\ alive = [c \in Comp |-> TRUE]
    /\ comps = [c \in Comp |-> DefaultComp]
    /\ lastOp = Op("None", NoComp)
    /\ frame = NoFrame
    /\ iter = IterIdle
    /\ InOutPassCallbacks = NoCallbacks

Next ==
    \/ \E c \in Comp \cup {NoComp} : RegisterBloomComponent(c) /\ BetweenFrames
    \/ \E c \in Comp \cup {NoComp} : UnregisterBloomComponent(c) /\ BetweenFrames
    \/ \E c \in Comp : DestroyComponent(c) /\ BetweenFrames
    \/ \E c \in Comp, b \in BOOLEAN : SetActive(c, b) /\ BetweenFrames
    \/ \E c \in Comp, v \in IntensityValues : SetBloomIntensity(c, v) /\ BetweenFrames
    \/ \E in \in MainInputs : RenderFrame(in)
    \/ EndFrame

Spec == Init /\ [][Next]_vars

(***************************************************************************)
(* SpecRegistry: the calls on the registration set, each recorded          *)
(***************************************************************************)
NextRegistry ==
    \/ \E c \in Comp \cup {NoComp} : RegisterBloomComponent(c) /\ Recorded("Register", c)
    \/ \E c \in Comp \cup {NoComp} : UnregisterBloomComponent(c) /\ Recorded("Unregister", c)
    \/ \E c \in Comp : DestroyComponent(c) /\ Recorded("Destroy", c)
    \/ \E c \in Comp, b \in BOOLEAN : SetActive(c, b) /\ Recorded("SetActive", c)

SpecRegistry == Init /\ [][NextRegistry]_vars

(***************************************************************************)
(* SpecGate: every combination of the view and show flags against a fixed  *)
(* registration set                                                        *)
(***************************************************************************)
\* the array holds components 1..n in order
Prefix(n) == [i \in 1..n |-> i]

InitGate ==
    /\ BloomComponents \in {Prefix(n) : n \in 0..NumComps}
    /\ alive = [c \in Comp |-> TRUE]
    /\ comps \in [Comp -> {[DefaultComp EXCEPT !.bIsActive = a, !.BloomIntensity = v] :
                              a \in BOOLEAN, v \in {0, IntensityDefault}}]
    /\ lastOp = Op("None", NoComp)
    /\ frame = NoFrame
    /\ iter = IterIdle
    /\ InOutPassCallbacks = NoCallbacks

\* the source buffer and the view's resources: all there, or one missing
GateResources ==
    {BaseInput,
     [BaseInput EXCEPT !.SceneColorTexture = NullTex],
     [BaseInput EXCEPT !.ViewRect = SourceRect(1, 0, 2)],
     [BaseInput EXCEPT !.ShaderMap = FALSE],
     [BaseInput EXCEPT !.Subsystem = FALSE]}

GateInputs ==
    {[r EXCEPT !.bIsReflectionCapture = f[1], !.bIsSceneCapture = f[2],
               !.bIsViewInfo = f[3], !.Rendering = f[4], !.PostProcessing = f[5],
               !.Wireframe = f[6]] :
        r \in GateResources, f \in [1..6 -> BOOLEAN]}

NextGate ==
    \/ \E in \in GateInputs : RenderFrame(in)
    \/ EndFrame

SpecGate == InitGate /\ [][NextGate]_vars

(***************************************************************************)
(* SpecGeom: every source rectangle against every downsample scale         *)
(***************************************************************************)
InitGeom ==
    /\ BloomComponents = <<1>>
    /\ alive = [c \in Comp |-> TRUE]
    /\ \E s \in (-1)..MaxScale :
          comps = [c \in Comp |-> [DefaultComp EXCEPT !.DownsampleScale = s]]
    /\ lastOp = Op("None", NoComp)
    /\ frame = NoFrame
    /\ iter = IterIdle
    /\ InOutPassCallbacks = NoCallbacks

GeomInputs ==
    {[BaseInput EXCEPT !.ViewRect = SourceRect(o, w, h),
                       !.Extent = SourceExtent(o, w, h, p)] :
        o \in 0..MaxOffset, w \in 0..MaxWidth, h \in 0..MaxHeight, p \in 0..MaxPadding}

NextGeom ==
    \/ \E in \in GeomInputs : RenderFrame(in)
    \/ EndFrame

SpecGeom == InitGeom /\ [][NextGeom]_vars

(***************************************************************************)
(* SpecGraph: every mode and pass count against every set of available     *)
(* pixel programs                                                          *)
(***************************************************************************)
GraphConfigs ==
    {[DefaultComp EXCEPT !.BloomMode = m, !.BlurPasses = n] :
        m \in BloomModes, n \in 0..MaxBlurPasses}
    \cup {[DefaultComp EXCEPT !.BloomMode = "DirectionalGlare", !.GlareStreakCount = k] :
        k \in 0..MaxStreakCount}
    \cup {[DefaultComp EXCEPT !.BloomMode = "Kawase", !.KawaseMipCount = m] :
        m \in 0..MaxMipCount}

InitGraph ==
    /\ BloomComponents = <<1>>
    /\ alive = [c \in Comp |-> TRUE]
    /\ \E cfg \in GraphConfigs : comps = [c \in Comp |-> cfg]
    /\ lastOp = Op("None", NoComp)
    /\ frame = NoFrame
    /\ iter = IterIdle
    /\ InOutPassCallbacks = NoCallbacks

GraphInputs ==
    {[BaseInput EXCEPT !.Shaders = sh, !.OverrideOutput = ov] :
        sh \in SUBSET ShaderNames, ov \in {NoOverride, ValidOverride(0, 6, 3, 1)}}

NextGraph ==
    \/ \E in \in GraphInputs : RenderFrame(in)
    \/ EndFrame

SpecGraph == InitGraph /\ [][NextGraph]_vars


(***************************************************************************)
(* SpecIter: the rendering thread's ranged-for over BloomComponents, one   *)
(* element at a time, while the game thread registers and unregisters.     *)
(* Neither side takes a lock. The ranged-for takes the array's data        *)
(* pointer and end once, before the first element.                         *)
(***************************************************************************)
\* for (const TWeakObjectPtr<UBloomFXComponent>& CompPtr : Components): begin
IterBegin ==
    /\ iter.pc = "idle"
    /\ iter' = [pc |-> "loop", Pos |-> 1, End |-> Len(BloomComponents),
                Dangling |-> FALSE, BadRead |-> FALSE, Active |-> NoComp]
    /\ UNCHANGED <<BloomComponents, alive, comps, lastOp, frame, InOutPassCallbacks>>

\* the slot at Pos lies past the array's current end (its element was
\* removed), or the loop's pointers are into storage the array has left
SlotRemoved == iter.Pos > Len(BloomComponents) \/ iter.Dangling

\* One turn of the loop. Reading a removed slot is undefined: the read gives
\* the bytes left there, which may be any weak pointer.
IterStep ==
    /\ iter.pc = "loop"
    /\ IF iter.Pos > iter.End
       THEN iter' = [iter EXCEPT !.pc = "done"]
       ELSE \E v \in (IF SlotRemoved THEN Comp \cup {NoComp}
                                     ELSE {BloomComponents[iter.Pos]}) :
               iter' = IF (IF v = NoComp THEN FALSE
                           ELSE IsValid(v, alive) /\ IsActive(v, comps))
                       THEN [iter EXCEPT !.pc = "done", !.Active = v,
                                         !.BadRead = @ \/ SlotRemoved]
                       ELSE [iter EXCEPT !.Pos = @ + 1,
                                         !.BadRead = @ \/ SlotRemoved]
    /\ UNCHANGED <<BloomComponents, alive, comps, lastOp, frame, InOutPassCallbacks>>

\* the loop is left and the call goes on with ActiveComponent
IterEnd ==
    /\ iter.pc = "done"
    /\ iter' = IterIdle
    /\ UNCHANGED <<BloomComponents, alive, comps, lastOp, frame, InOutPassCallbacks>>

\* A game-thread step taken at any point of the loop. AddUnique may grow the
\* array and Remove may shrink it: either may move its storage.
Concurrently ==
    /\ UNCHANGED <<frame, lastOp, InOutPassCallbacks>>
    /\ \E moved \in BOOLEAN :
          iter' = IF moved /\ iter.pc = "loop" /\ BloomComponents' # BloomComponents
                  THEN [iter EXCEPT !.Dangling = TRUE]
                  ELSE iter

InitIter ==
    /\ BloomComponents \in {Prefix(n) : n \in 0..NumComps}
    /\ alive = [c \in Comp |-> TRUE]
    /\ comps \in [Comp -> {[DefaultComp EXCEPT !.bIsActive = a] : a \in BOOLEAN}]
    /\ lastOp = Op("None", NoComp)
    /\ frame = NoFrame
    /\ iter = IterIdle
    /\ InOutPassCallbacks = NoCallbacks

NextIter ==
    \/ \E c \in Comp \cup {NoComp} : RegisterBloomComponent(c) /\ Concurrently
    \/ \E c \in Comp \cup {NoComp} : UnregisterBloomComponent(c) /\ Concurrently
    \/ IterBegin
    \/ IterStep
    \/ IterEnd

SpecIter == InitIter /\ [][NextIter]_vars


(***************************************************************************)
(* SpecSubscribe: FClassicBloomSceneViewExtension::                        *)
(* SubscribeToPostProcessingPass, called by the engine for each insertion  *)
(* point of a view with that point's callback array, among the other view  *)
(* extensions' subscriptions                                               *)
(***************************************************************************)
\* number of callbacks other view extensions add to a view's arrays
MaxOtherCallbacks == 1

\* EBloomPostProcessPass
BloomPostProcessPasses == {"Tonemap", "MotionBlur", "FXAA", "VisualizeDepthOfField"}

\* EWorldType values the filter allows, and one it does not
AllowedWorldTypes == {"Game", "Editor", "PIE"}
WorldTypes == AllowedWorldTypes \cup {"EditorPreview"}

\* switch (CompPtr->PostProcessPass) of the first alive and enabled component;
\* MotionBlur when there is none or the value is outside the enum
DesiredPass(arr, al, cs) ==
    LET a == FindActiveComponent(arr, al, cs).Active
    IN IF a = NoComp THEN "MotionBlur"
       ELSE IF cs[a].PostProcessPass \in BloomPostProcessPasses
       THEN cs[a].PostProcessPass
       ELSE "MotionBlur"

\* mutant: the guard never finds a callback
AlreadySubscribedNever(cb) == FALSE

\* if (InOutPassCallbacks.Num() > 0)
AlreadySubscribed(cb) == Len(cb) > 0

\* bEnableDebug: bEnableDebugLogging of the first alive and enabled component
EnableDebug(arr, al, cs) ==
    LET a == FindActiveComponent(arr, al, cs).Active
    IN IF a = NoComp THEN FALSE ELSE cs[a].bEnableDebugLogging

\* what the run of a call can add to its inputs: whether the subscribe log
\* line is written (its category compiled in and active, and more than a
\* second since the last one), and what reading a field through a null
\* UWorld pointer does
LogStates == {"Silent", "Logs"}
NullReads == {"Faults", "Continues"}

\* Family->Scene ? ... : -1 in the subscribe log line
SceneForLog(v) == v.Scene

\* the subscribe log line evaluates Family->Scene->GetWorld()->WorldType
\* without a test of GetWorld()
LogDereferencesNullWorld(v, dbg, log) ==
    dbg /\ log = "Logs" /\ SceneForLog(v) /\ ~(v.Scene /\ v.World)

\* the whole call: where it returned, the array it leaves, and whether it
\* read through a null scene or world pointer
SubscribeResult(PassId, v, cb, arr, al, cs, log, nullRead) ==
    IF ~v.Family THEN [Exit |-> "NoFamily", Callbacks |-> cb, NullDeref |-> FALSE]
    ELSE IF v.Scene /\ v.World /\ v.WorldType \notin AllowedWorldTypes
    THEN [Exit |-> "WorldType", Callbacks |-> cb, NullDeref |-> FALSE]
    ELSE IF ~v.PostProcessing
    THEN [Exit |-> "ShowFlags", Callbacks |-> cb, NullDeref |-> FALSE]
    ELSE IF ~v.Rendering \/ v.Wireframe
    THEN [Exit |-> "ShowFlags", Callbacks |-> cb, NullDeref |-> FALSE]
    ELSE IF ~v.Subsystem THEN [Exit |-> "NoSubsystem", Callbacks |-> cb, NullDeref |-> FALSE]
    ELSE IF PassId # DesiredPass(arr, al, cs)
    THEN [Exit |-> "OtherPass", Callbacks |-> cb, NullDeref |-> FALSE]
    ELSE IF AlreadySubscribed(cb)
    THEN [Exit |-> "AlreadySubscribed", Callbacks |-> cb, NullDeref |-> FALSE]
    ELSE IF LogDereferencesNullWorld(v, EnableDebug(arr, al, cs), log)
    THEN IF nullRead = "Faults"
         THEN [Exit |-> "Fault", Callbacks |-> cb, NullDeref |-> TRUE]
         ELSE [Exit |-> "Subscribed", Callbacks |-> Append(cb, "ClassicBloom"),
               NullDeref |-> TRUE]
    ELSE [Exit |-> "Subscribed", Callbacks |-> Append(cb, "ClassicBloom"),
          NullDeref |-> FALSE]

SubscribeToPostProcessingPass(PassId, v, log, nullRead) ==
    LET r == SubscribeResult(PassId, v, InOutPassCallbacks[PassId],
                             BloomComponents, alive, comps, log, nullRead)
    IN /\ InOutPassCallbacks' = [InOutPassCallbacks EXCEPT ![PassId] = r.Callbacks]
       /\ lastOp' = [Op |-> "Subscribe", Comp |-> NoComp, Pass |-> PassId,
                     Exit |-> r.Exit, View |-> v, NullDeref |-> r.NullDeref]
       /\ UNCHANGED <<BloomComponents, alive, comps, frame, iter>>

\* the callbacks of other extensions in all the arrays of the view
OtherCallbacks ==
    {<<p, i>> \in PassIds \X (1..(MaxOtherCallbacks + 2)) :
        i <= Len(InOutPassCallbacks[p]) /\ InOutPassCallbacks[p][i] = "Other"}

\* another view extension subscribes to insertion point p
OtherExtensionSubscribes(p) ==
    /\ Cardinality(OtherCallbacks) < MaxOtherCallbacks
    /\ InOutPassCallbacks' = [InOutPassCallbacks EXCEPT ![p] = Append(@, "Other")]
    /\ lastOp' = Op("OtherSubscribe", NoComp)
    /\ UNCHANGED <<BloomComponents, alive, comps, frame, iter>>

\* the engine sets up the next view: its callback arrays start empty
SetupNextView ==
    /\ InOutPassCallbacks # NoCallbacks
    /\ InOutPassCallbacks' = NoCallbacks
    /\ lastOp' = Op("SetupView", NoComp)
    /\ UNCHANGED <<BloomComponents, alive, comps, frame, iter>>

\* the owner edits PostProcessPass
SetPostProcessPass(c, p) ==
    /\ alive[c]
    /\ comps[c].PostProcessPass # p
    /\ comps' = [comps EXCEPT ![c].PostProcessPass = p]
    /\ UNCHANGED <<BloomComponents, alive>>

\* a game, editor or PIE view with everything in place
BaseView ==
    [Family |-> TRUE, Scene |-> TRUE, World |-> TRUE, WorldType |-> "Game",
     PostProcessing |-> TRUE,
     Rendering |-> TRUE, Wireframe |-> FALSE, Subsystem |-> TRUE]

Views ==
    {[BaseView EXCEPT !.WorldType = w] : w \in WorldTypes}
    \cup {[BaseView EXCEPT !.Family = FALSE],
          [BaseView EXCEPT !.Scene = FALSE, !.World = FALSE, !.WorldType = "None"],
          [BaseView EXCEPT !.World = FALSE, !.WorldType = "None"],
          [BaseView EXCEPT !.PostProcessing = FALSE],
          [BaseView EXCEPT !.Rendering = FALSE],
          [BaseView EXCEPT !.Wireframe = TRUE],
          [BaseView EXCEPT !.Subsystem = FALSE]}

InitSubscribe ==
    /\ BloomComponents \in {<<>>, <<1>>}
    /\ alive = [c \in Comp |-> TRUE]
    /\ comps = [c \in Comp |-> DefaultComp]
    /\ lastOp = Op("None", NoComp)
    /\ frame = NoFrame
    /\ iter = IterIdle
    /\ InOutPassCallbacks = NoCallbacks

\* the views of this specification: one that passes every filter and three
\* that a filter turns away
GuardViews ==
    {BaseView, [BaseView EXCEPT !.Family = FALSE], [BaseView EXCEPT !.Wireframe = TRUE],
     [BaseView EXCEPT !.WorldType = "EditorPreview"]}

\* debug logging is off in this specification: no call writes a log line
NextSubscribe ==
    \/ \E p \in PassIds, v \in GuardViews :
          SubscribeToPostProcessingPass(p, v, "Silent", "Faults")
    \/ \E p \in PassIds : OtherExtensionSubscribes(p)
    \/ SetupNextView
    \/ \E c \in Range(BloomComponents), p \in BloomPostProcessPasses \cup {"Invalid"} :
          SetPostProcessPass(c, p) /\ Recorded("SetPostProcessPass", c)

SpecSubscribe == InitSubscribe /\ [][NextSubscribe]_vars

(***************************************************************************)
(* SpecTransform: every mode and the ends of the downsample scale against  *)
(* source rectangles at every offset and padding, with and without an      *)
(* override output whose rectangle lies elsewhere in its own texture       *)
(***************************************************************************)
\* largest width of the source valid rectangle in this specification
MaxTransformWidth == 5

InitTransform ==
    /\ BloomComponents = <<1>>
    /\ alive = [c \in Comp |-> TRUE]
    /\ \E m \in BloomModes, s \in {ScaleMin, ScaleDefault, ScaleMax} :
          comps = [c \in Comp |-> [DefaultComp EXCEPT !.BloomMode = m,
                                                      !.DownsampleScale = s]]
    /\ lastOp = Op("None", NoComp)
    /\ frame = NoFrame
    /\ iter = IterIdle
    /\ InOutPassCallbacks = NoCallbacks

TransformInputs ==
    UNION {{[BaseInput EXCEPT !.ViewRect = SourceRect(o, w, h),
                              !.Extent = SourceExtent(o, w, h, p),
                              !.OverrideOutput = ov] :
               ov \in {NoOverride} \cup {ValidOverride(oo, w, h, p) : oo \in 0..MaxOffset}} :
           o \in 0..MaxOffset, w \in 1..MaxTransformWidth, h \in 1..MaxHeight,
           p \in 0..MaxPadding}

NextTransform ==
    \/ \E in \in TransformInputs : RenderFrame(in)
    \/ EndFrame

SpecTransform == InitTransform /\ [][NextTransform]_vars

(***************************************************************************)
(* SpecMode: graph construction on the rendering thread, one read of       *)
(* ActiveComponent->BloomMode at a time, while the component's owner edits  *)
(* BloomMode on the game thread. The component is a UObject read through a  *)
(* raw pointer: the code takes no copy of it and no lock.                   *)
(***************************************************************************)
\* PostProcessPass_RenderThread up to the selection of ActiveComponent
BeginGraph(in) ==
    /\ frame = NoFrame
    /\ PostProcessPass_RenderThread(in, BloomComponents, alive, comps).Exit = "Rendered"
    /\ frame' = [Exit |-> "Building", In |-> in,
                 Selection |-> FindActiveComponent(BloomComponents, alive, comps),
                 Reads |-> <<>>]
    /\ UNCHANGED <<BloomComponents, alive, comps, lastOp, iter, InOutPassCallbacks>>

\* the next of the reads at lines 355, 406, 407 and 408
ReadBloomMode ==
    /\ frame.Exit = "Building"
    /\ Len(frame.Reads) < 4
    /\ frame' = [frame EXCEPT !.Reads = Append(@, comps[frame.Selection.Active].BloomMode)]
    /\ UNCHANGED <<BloomComponents, alive, comps, lastOp, iter, InOutPassCallbacks>>

\* the call returns: the graph built from what the reads gave
FinishGraph ==
    /\ frame.Exit = "Building"
    /\ Len(frame.Reads) = 4
    /\ frame' = BuildGraphWithModes(frame.In, frame.Selection, comps[frame.Selection.Active],
                    [Threshold |-> frame.Reads[1], Glare |-> frame.Reads[2],
                     Kawase |-> frame.Reads[3], SoftFocus |-> frame.Reads[4]])
    /\ UNCHANGED <<BloomComponents, alive, comps, lastOp, iter, InOutPassCallbacks>>

\* the owner edits BloomMode (a BlueprintReadWrite property)
SetBloomMode(c, m) ==
    /\ alive[c]
    /\ comps[c].BloomMode # m
    /\ comps' = [comps EXCEPT ![c].BloomMode = m]
    /\ UNCHANGED <<BloomComponents, alive>>

\* a game-thread step taken at any point of the graph construction
DuringFrame == UNCHANGED <<frame, lastOp, iter, InOutPassCallbacks>>

InitMode ==
    /\ BloomComponents = <<1>>
    /\ alive = [c \in Comp |-> TRUE]
    /\ comps = [c \in Comp |-> DefaultComp]
    /\ lastOp = Op("None", NoComp)
    /\ frame = NoFrame
    /\ iter = IterIdle
    /\ InOutPassCallbacks = NoCallbacks

NextMode ==
    \/ \E in \in MainInputs : BeginGraph(in)
    \/ ReadBloomMode
    \/ FinishGraph
    \/ EndFrame
    \/ \E c \in Range(BloomComponents), m \in BloomModes : SetBloomMode(c, m) /\ DuringFrame

SpecMode == InitMode /\ [][NextMode]_vars

(***************************************************************************)
(* SpecMip: Kawase mode, every mip count against every source rectangle     *)
(* and the downsample scales 0.25, 1.0 and 2.0                              *)
(***************************************************************************)
MipConfigs ==
    {[DefaultComp EXCEPT !.BloomMode = "Kawase", !.KawaseMipCount = m,
                         !.DownsampleScale = s] :
        m \in 0..MaxMipCount, s \in {ScaleMin, ScaleDefault, ScaleMax}}

InitMip ==
    /\ BloomComponents = <<1>>
    /\ alive = [c \in Comp |-> TRUE]
    /\ \E cfg \in MipConfigs : comps = [c \in Comp |-> cfg]
    /\ lastOp = Op("None", NoComp)
    /\ frame = NoFrame
    /\ iter = IterIdle
    /\ InOutPassCallbacks = NoCallbacks

\* source rectangles at the origin of a texture of their own size
MipInputs ==
    {[BaseInput EXCEPT !.ViewRect = SourceRect(0, w, h),
                       !.Extent = SourceExtent(0, w, h, 0)] :
        w \in 0..MaxWidth, h \in 0..MaxHeight}

NextMip ==
    \/ \E in \in MipInputs : RenderFrame(in)
    \/ EndFrame

SpecMip == InitMip /\ [][NextMip]_vars

(***************************************************************************)
(* SpecView: one call of SubscribeToPostProcessingPass per view, for every *)
(* view, insertion point, registration set and debug setting               *)
(***************************************************************************)
\* the first component's settings; a second component asks for FXAA
ViewConfigs ==
    {[c \in Comp |->
        IF c = 1 THEN [DefaultComp EXCEPT !.bIsActive = act, !.PostProcessPass = pp,
                                          !.bEnableDebugLogging = dbg]
                 ELSE [DefaultComp EXCEPT !.PostProcessPass = "FXAA"]] :
        act \in BOOLEAN, pp \in BloomPostProcessPasses, dbg \in BOOLEAN}

InitView ==
    /\ BloomComponents \in {<<>>, Prefix(2)}
    /\ alive = [c \in Comp |-> TRUE]
    /\ comps \in ViewConfigs
    /\ lastOp = Op("None", NoComp)
    /\ frame = NoFrame
    /\ iter = IterIdle
    /\ InOutPassCallbacks = NoCallbacks

\* the engine calls the extension once for a view's insertion point
SubscribeOnce(p, v, log, nullRead) ==
    /\ lastOp.Op # "Subscribe"
    /\ SubscribeToPostProcessingPass(p, v, log, nullRead)

NextView ==
    \/ \E p \in PassIds, v \in Views, log \in LogStates, nullRead \in NullReads :
          SubscribeOnce(p, v, log, nullRead)
    \/ \E p \in PassIds : OtherExtensionSubscribes(p)
    \/ SetupNextView

SpecView == InitView /\ [][NextView]_vars

(***************************************************************************)
(* SpecClamp: the three configured counts over the int32 range, all        *)
(* programs available                                                      *)
(***************************************************************************)
\* the least and the greatest int32
MaxInt32 == 2^30 + (2^30 - 1)
MinInt32 == (-MaxInt32) - 1

\* the values a count is configured with: the ends of the int32 range, -1,
\* and every value from 0 to one above n
CountValues(n) == {MinInt32, -1, MaxInt32} \cup (0..(n + 1))

ClampConfigs ==
    {[DefaultComp EXCEPT !.BloomMode = m, !.BlurPasses = n] :
        m \in {"Standard", "SoftFocus"}, n \in CountValues(BlurPassesMax)}
    \cup {[DefaultComp EXCEPT !.BloomMode = "DirectionalGlare", !.GlareStreakCount = k] :
        k \in CountValues(StreakCountMax)}
    \cup {[DefaultComp EXCEPT !.BloomMode = "Kawase", !.KawaseMipCount = m] :
        m \in CountValues(MipCountMax)}

InitClamp ==
    /\ BloomComponents = <<1>>
    /\ alive = [c \in Comp |-> TRUE]
    /\ \E cfg \in ClampConfigs : comps = [c \in Comp |-> cfg]
    /\ lastOp = Op("None", NoComp)
    /\ frame = NoFrame
    /\ iter = IterIdle
    /\ InOutPassCallbacks = NoCallbacks

ClampInputs ==
    {[BaseInput EXCEPT !.OverrideOutput = ov] :
        ov \in {NoOverride, ValidOverride(0, 6, 3, 1), ValidOverride(1, 6, 3, 0)}}

NextClamp ==
    \/ \E in \in ClampInputs : RenderFrame(in)
    \/ EndFrame

SpecClamp == InitClamp /\ [][NextClamp]_vars

(***************************************************************************)
(* SpecLifecycle: the engine's calls on UBloomFXComponent (OnRegister,     *)
(* BeginPlay, OnUnregister, EndPlay, TickComponent) and the owner's edits  *)
(* of the reinitialize settings. Times are in tenths of a second.          *)
(***************************************************************************)
\* mutant: registration appends without looking for the component
RegisterWithSubsystemAppend(arr, c, HasSubsystem) ==
    IF HasSubsystem THEN Append(arr, c) ELSE arr

\* UBloomFXComponent::RegisterWithSubsystem; HasSubsystem: GetWorld() and
\* World->GetSubsystem<UClassicBloomSubsystem>() are both non-null
RegisterWithSubsystem(arr, c, HasSubsystem) ==
    IF HasSubsystem THEN AddUnique(arr, c) ELSE arr

\* UBloomFXComponent::UnregisterFromSubsystem
UnregisterFromSubsystem(arr, c, HasSubsystem) ==
    IF HasSubsystem THEN Remove(arr, c) ELSE arr

\* mutant: reinitialization registers without unregistering first
ReinitializeInPlace(arr, c, HasSubsystem) == RegisterWithSubsystem(arr, c, HasSubsystem)

\* UnregisterFromSubsystem(); RegisterWithSubsystem(); of TickComponent
Reinitialize(arr, c, HasSubsystem) ==
    RegisterWithSubsystem(UnregisterFromSubsystem(arr, c, HasSubsystem), c, HasSubsystem)

\* a lifecycle call, recorded in lastOp
Lifecycle(name, c, HasSubsystem, DeltaTime) ==
    /\ lastOp' = [Op |-> name, Comp |-> c, HasSubsystem |-> HasSubsystem,
                  DeltaTime |-> DeltaTime]
    /\ UNCHANGED <<alive, frame, iter, InOutPassCallbacks>>

OnRegister(c, HasSubsystem) ==
    /\ alive[c]
    /\ BloomComponents' = RegisterWithSubsystem(BloomComponents, c, HasSubsystem)
    /\ UNCHANGED comps
    /\ Lifecycle("OnRegister", c, HasSubsystem, 0)

OnUnregister(c, HasSubsystem) ==
    /\ alive[c]
    /\ BloomComponents' = UnregisterFromSubsystem(BloomComponents, c, HasSubsystem)
    /\ UNCHANGED comps
    /\ Lifecycle("OnUnregister", c, HasSubsystem, 0)

BeginPlay(c, HasSubsystem) ==
    /\ alive[c]
    /\ BloomComponents' = RegisterWithSubsystem(BloomComponents, c, HasSubsystem)
    /\ UNCHANGED comps
    /\ Lifecycle("BeginPlay", c, HasSubsystem, 0)

EndPlay(c, HasSubsystem) ==
    /\ alive[c]
    /\ BloomComponents' = UnregisterFromSubsystem(BloomComponents, c, HasSubsystem)
    /\ UNCHANGED comps
    /\ Lifecycle("EndPlay", c, HasSubsystem, 0)

\* UBloomFXComponent::TickComponent, both of its blocks
TickComponent(c, DeltaTime, HasSubsystem) ==
    LET me == comps[c]
        manual == me.bReinitializeRect
        arr1 == IF manual THEN Reinitialize(BloomComponents, c, HasSubsystem)
                          ELSE BloomComponents
        timing == me.bAutoReinitializeRect /\ me.ReinitializeInterval > 0
        timer1 == me.ReinitializeTimer + DeltaTime
        due == timing /\ timer1 >= me.ReinitializeInterval
    IN /\ alive[c]
       /\ BloomComponents' = IF due THEN Reinitialize(arr1, c, HasSubsystem) ELSE arr1
       /\ comps' = [comps EXCEPT
              ![c].bReinitializeRect = FALSE,
              ![c].ReinitializeTimer = IF timing /\ ~due THEN timer1 ELSE 0]
       /\ Lifecycle("TickComponent", c, HasSubsystem, DeltaTime)

\* the owner sets bReinitializeRect (the button in the details panel)
SetReinitializeRect(c) ==
    /\ alive[c]
    /\ ~comps[c].bReinitializeRect
    /\ comps' = [comps EXCEPT ![c].bReinitializeRect = TRUE]
    /\ UNCHANGED BloomComponents
    /\ Lifecycle("SetReinitializeRect", c, TRUE, 0)

\* the owner switches bAutoReinitializeRect
SetAutoReinitializeRect(c, b) ==
    /\ alive[c]
    /\ comps[c].bAutoReinitializeRect # b
    /\ comps' = [comps EXCEPT ![c].bAutoReinitializeRect = b]
    /\ UNCHANGED BloomComponents
    /\ Lifecycle("SetAutoReinitializeRect", c, TRUE, 0)

\* frame times, and intervals: negative, zero, half a second, the default
DeltaTimes == {0, 3, 5, ReinitializeIntervalDefault}
IntervalValues == {-5, 0, 5, ReinitializeIntervalDefault}

\* the components whose reinitialize settings are edited; the others keep
\* the defaults
Reinitializing == {1}

InitLifecycle ==
    /\ BloomComponents = <<>>
    /\ alive = [c \in Comp |-> TRUE]
    /\ \E i \in IntervalValues :
          comps = [c \in Comp |-> [DefaultComp EXCEPT !.ReinitializeInterval = i]]
    /\ lastOp = Op("None", NoComp)
    /\ frame = NoFrame
    /\ iter = IterIdle
    /\ InOutPassCallbacks = NoCallbacks

NextLifecycle ==
    \/ \E c \in Comp, w \in BOOLEAN : OnRegister(c, w)
    \/ \E c \in Comp, w \in BOOLEAN : BeginPlay(c, w)
    \/ \E c \in Comp, w \in BOOLEAN : OnUnregister(c, w)
    \/ \E c \in Comp, w \in BOOLEAN : EndPlay(c, w)
    \/ \E c \in Comp, dt \in DeltaTimes, w \in BOOLEAN : TickComponent(c, dt, w)
    \/ \E c \in Reinitializing : SetReinitializeRect(c)
    \/ \E c \in Reinitializing, b \in BOOLEAN : SetAutoReinitializeRect(c, b)

SpecLifecycle == InitLifecycle /\ [][NextLifecycle]_vars

(***************************************************************************)
(* Properties                                                              *)
(***************************************************************************)
\* the positions of the array whose component is alive and enabled
EnabledPositions ==
    {i \in 1..Len(BloomComponents) :
        alive[BloomComponents[i]] /\ comps[BloomComponents[i]].bIsActive}

FirstEnabledPos == CHOOSE i \in EnabledPositions : \A j \in EnabledPositions : i <= j

\* the frame's source buffer, as handed in
SourceOf(f) == ScreenPassTexture(SceneColorTex, f.In.ViewRect)

PassedThrough(f) == f.Ret = SourceOf(f) /\ f.Textures = <<>> /\ f.Passes = <<>>

\* the six view and show flags of the activation gate
FlagsOpen(in) ==
    /\ ~in.bIsReflectionCapture /\ ~in.bIsSceneCapture /\ in.bIsViewInfo
    /\ in.Rendering /\ in.PostProcessing /\ ~in.Wireframe

\* C1: with a valid source buffer, a non-degenerate rectangle, a live
\* subsystem, a shader map and every program available, the call builds a
\* graph exactly when the six flags are open, some registered component is
\* enabled and the first such component has BloomIntensity > 0; otherwise it
\* returns the source buffer and builds nothing.
C1_ActivationGate ==
    (/\ frame # NoFrame
     /\ frame.In.SceneColorTexture # NullTex
     /\ Width(frame.In.ViewRect) >= 1 /\ Height(frame.In.ViewRect) >= 1
     /\ frame.In.Subsystem /\ frame.In.ShaderMap /\ frame.In.Shaders = ShaderNames)
    => IF /\ FlagsOpen(frame.In)
          /\ EnabledPositions # {}
          /\ comps[BloomComponents[FirstEnabledPos]].BloomIntensity > 0
       THEN frame.Exit = "Rendered" /\ frame.Textures # <<>> /\ frame.Passes # <<>>
       ELSE PassedThrough(frame)

C1_Witness ==
    /\ frame # NoFrame
    /\ frame.Exit = "Rendered"
    /\ Len(BloomComponents) = NumComps
    /\ ~comps[BloomComponents[1]].bIsActive

\* C2: for every source rectangle at least 1 x 1, at any offset, and every
\* downsample scale, the bright-pass rectangle starts at (0,0), its size is
\* the bright-pass texture's extent, both dimensions are >= 1, and the
\* degenerate-downsampled return is not taken.
C2_GeometryInvariant ==
    (/\ frame # NoFrame
     /\ Width(frame.In.ViewRect) >= 1 /\ Height(frame.In.ViewRect) >= 1)
    => /\ frame.Exit = "Rendered"
       /\ frame.Textures[1].Tex = BrightPassTexture
       /\ frame.Passes[1].Target = BrightPassTexture
       /\ frame.Passes[1].Rect.Min = ZeroValue
       /\ frame.Passes[1].Rect.Max = frame.Textures[1].Extent
       /\ frame.Passes[1].Params.OutputViewport =
              Viewport(frame.Textures[1].Extent, frame.Passes[1].Rect)
       /\ frame.Textures[1].Extent.X >= 1
       /\ frame.Textures[1].Extent.Y >= 1

C2_Witness ==
    /\ frame # NoFrame
    /\ frame.Exit = "Rendered"
    /\ frame.In.ViewRect.Min.X >= 1
    /\ Width(frame.In.ViewRect) = 1
    /\ frame.Comp.DownsampleScale = ScaleMin

\* max(1, round(2.0 / s)) for the scale s clamped to [0.25, 2.0], stated
\* without division: the d with d - 1/2 <= 2.0 / s < d + 1/2
ClaimedDivisor(s) ==
    LET x == IF s < ScaleMin THEN ScaleMin ELSE IF s > ScaleMax THEN ScaleMax ELSE s
        d == CHOOSE k \in 0..(2 * ScaleTwo) :
                 (2 * k - 1) * x <= 2 * ScaleTwo /\ 2 * ScaleTwo < (2 * k + 1) * x
    IN IF d < 1 THEN 1 ELSE d

\* the least k with k * d >= a
CeilingOf(a, d) == CHOOSE k \in 0..a : k * d >= a /\ (k - 1) * d < a

\* C3: the divisor is max(1, round(2.0 / s)) for the clamped scale s, lies in
\* 1..8 (1 at s = 2.0, 2 at s = 1.0, 8 at s = 0.25), and the bright-pass
\* extent is the ceiling of the source rectangle's width and height (not of
\* the texture's extent) over it.
C3_BrightPassSizing ==
    (frame # NoFrame /\ frame.Exit = "Rendered")
    => LET s == frame.Comp.DownsampleScale
           d == ClaimedDivisor(s)
       IN /\ d \in 1..8
          /\ Divisor(frame.Comp) = d
          /\ (s >= ScaleMax => d = 1)
          /\ (s = ScaleDefault => d = 2)
          /\ (s <= ScaleMin => d = 8)
          /\ frame.Textures[1].Extent =
                 Point(CeilingOf(Width(frame.In.ViewRect), d),
                       CeilingOf(Height(frame.In.ViewRect), d))

C3_Witness ==
    /\ frame # NoFrame
    /\ frame.Exit = "Rendered"
    /\ frame.Comp.DownsampleScale > ScaleMax
    /\ frame.In.Extent # RectSize(frame.In.ViewRect)
    /\ frame.In.ViewRect.Min.X >= 1

\* C4: when the bright-pass program or the composite program is unavailable
\* the call returns the source buffer (same texture, same rectangle), never
\* the output target, in every mode and with or without an override output.
C4_FailClosed ==
    (/\ frame # NoFrame
     /\ ("BrightPassPS" \notin frame.In.Shaders \/ "CompositePS" \notin frame.In.Shaders))
    => /\ frame.Ret = SourceOf(frame)
       /\ frame.Ret.Texture \notin {OutputTexture, OverrideTex}
       /\ frame.Exit \in {"NoBrightPassShader", "NoCompositeShader"}
       /\ \A i \in 1..Len(frame.Passes) : frame.Passes[i].Name # "CompositeBloom"

C4_Witness ==
    /\ frame # NoFrame
    /\ frame.Exit = "NoCompositeShader"
    /\ frame.In.OverrideOutput.Valid
    /\ frame.Comp.BloomMode = "Kawase"
    /\ frame.Passes # <<>>

\* the graph Standard mode builds for the frame's inputs and configuration
StandardGraphOf(f) == BuildGraph(f.In, f.Selection, [f.Comp EXCEPT !.BloomMode = "Standard"])

\* the frame's bloom result is the output of the Standard blur chain applied
\* to the bright-pass result
BloomIsStandardChain(f) ==
    LET blurs == SelectSeq(f.Passes, LAMBDA p : p.Name \in {"BlurHorizontal", "BlurVertical"})
    IN /\ f.Blurred = BlurredTexture
       /\ f.Passes[Len(f.Passes)].Name = "CompositeBloom"
       /\ f.Passes[Len(f.Passes)].Reads[2] = BlurredTexture
       /\ Len(blurs) = 2 * NumBlurPasses(f.Comp)
       /\ blurs[1].Reads = <<BrightPassTexture>>
       /\ blurs[Len(blurs)].Target = BlurredTexture
       /\ blurs = SelectSeq(StandardGraphOf(f).Passes,
                            LAMBDA p : p.Name \in {"BlurHorizontal", "BlurVertical"})

\* C5: in DirectionalGlare mode with the streak or the accumulate program
\* unavailable, the bloom result is the Standard blur chain's output and the
\* graph built is the one Standard mode builds for the same configuration.
C5_GlareFallback ==
    (/\ frame # NoFrame
     /\ frame.Comp.BloomMode = "DirectionalGlare"
     /\ {"BrightPassPS", "BlurPS", "CompositePS"} \subseteq frame.In.Shaders
     /\ ("GlareStreakPS" \notin frame.In.Shaders
         \/ "GlareAccumulatePS" \notin frame.In.Shaders))
    => /\ BloomIsStandardChain(frame)
       /\ frame.Passes = StandardGraphOf(frame).Passes
       /\ frame.Textures = StandardGraphOf(frame).Textures

\* C6: in Kawase mode with the Kawase downsample or upsample program
\* unavailable, no Kawase texture or pass is created and the bloom result is
\* the Standard blur chain's output.
C6_KawaseFallback ==
    (/\ frame # NoFrame
     /\ frame.Comp.BloomMode = "Kawase"
     /\ {"BrightPassPS", "CompositePS"} \subseteq frame.In.Shaders
     /\ ("KawaseDownsamplePS" \notin frame.In.Shaders
         \/ "KawaseUpsamplePS" \notin frame.In.Shaders))
    => /\ \A i \in 1..Len(frame.Textures) :
              frame.Textures[i].Tex.Name \notin
                  {"ClassicBloom.KawaseMip", "ClassicBloom.KawaseUpsample",
                   "ClassicBloom.KawaseBlurred"}
       /\ \A i \in 1..Len(frame.Passes) :
              frame.Passes[i].Shader \notin {"KawaseDownsamplePS", "KawaseUpsamplePS"}
       /\ BloomIsStandardChain(frame)

C6_Witness ==
    /\ frame # NoFrame
    /\ frame.Exit = "Rendered"
    /\ frame.Comp.BloomMode = "Kawase"
    /\ "KawaseDownsamplePS" \in frame.In.Shaders
    /\ "KawaseUpsamplePS" \notin frame.In.Shaders

\* C7: no pass is added to the graph with a pixel program that is
\* unavailable, for any of the seven programs.
C7_NoPassWithUnavailableProgram ==
    frame # NoFrame
    => \A i \in 1..Len(frame.Passes) : frame.Passes[i].Shader \in frame.In.Shaders

NoDuplicates(arr) == \A i, j \in 1..Len(arr) : arr[i] = arr[j] => i = j

\* C8: the set holds each component at most once; registering a component
\* already present, unregistering an absent one, or passing null to either
\* call leaves the set unchanged; registering an absent component adds it and
\* keeps the others; unregistering a present one removes it and no other.
C8_IdempotentRegistration ==
    [][/\ NoDuplicates(BloomComponents')
       /\ lastOp'.Op = "Register" =>
             IF lastOp'.Comp = NoComp \/ lastOp'.Comp \in Range(BloomComponents)
             THEN BloomComponents' = BloomComponents
             ELSE /\ Range(BloomComponents') = Range(BloomComponents) \cup {lastOp'.Comp}
                  /\ SelectSeq(BloomComponents', LAMBDA x : x # lastOp'.Comp)
                         = BloomComponents
       /\ lastOp'.Op = "Unregister" =>
             IF lastOp'.Comp = NoComp \/ lastOp'.Comp \notin Range(BloomComponents)
             THEN BloomComponents' = BloomComponents
             ELSE /\ Range(BloomComponents') = Range(BloomComponents) \ {lastOp'.Comp}
                  /\ BloomComponents' =
                         SelectSeq(BloomComponents, LAMBDA x : x # lastOp'.Comp)
      ]_vars

C8_Witness ==
    /\ lastOp.Op = "Unregister"
    /\ lastOp.Comp # NoComp
    /\ Len(BloomComponents) = NumComps - 1
    /\ lastOp.Comp \notin Range(BloomComponents)

\* C9: when register and unregister calls interleave with the rendering
\* thread's loop over the set, the loop never reads a slot that is out of
\* range or was removed.
C9_IterationReadsOnlyLiveSlots == ~iter.BadRead

\* C10: the component used for a frame is the first entry, in array order,
\* that is alive and enabled; stale entries are tested but not dereferenced;
\* no entry after the first enabled one is looked at; and if that entry has
\* BloomIntensity <= 0 the frame is passed through even when a later enabled
\* entry has a positive one.
C10_EffectSelection ==
    frame # NoFrame
    => LET sel == frame.Selection
           last == IF EnabledPositions = {} THEN Len(BloomComponents) ELSE FirstEnabledPos
       IN /\ sel.Active = IF EnabledPositions = {} THEN NoComp
                          ELSE BloomComponents[FirstEnabledPos]
          /\ sel.Tested = [i \in 1..last |-> i]
          /\ Range(sel.Dereferenced) = {i \in 1..last : alive[BloomComponents[i]]}
          /\ IF sel.Active = NoComp THEN PassedThrough(frame)
             ELSE IF comps[sel.Active].BloomIntensity <= 0 THEN PassedThrough(frame)
             ELSE frame.Exit = "Rendered" /\ frame.Comp = comps[sel.Active]

C10_Witness ==
    /\ frame # NoFrame
    /\ Len(BloomComponents) = 2
    /\ EnabledPositions = {1, 2}
    /\ comps[BloomComponents[1]].BloomIntensity <= 0
    /\ comps[BloomComponents[2]].BloomIntensity > 0
    /\ frame.Exit = "NoActiveEffect"

\* the number of bloom callbacks in a callback array
BloomCallbacks(cb) == Cardinality({i \in 1..Len(cb) : cb[i] = "ClassicBloom"})

\* C11: over any sequence of SubscribeToPostProcessingPass calls on a view's
\* callback arrays, no array ever holds more than one bloom callback, and a
\* call that finds its array non-empty leaves every array as it was.
C11_SubscriptionGuard ==
    [][/\ \A p \in PassIds : BloomCallbacks(InOutPassCallbacks'[p]) <= 1
       /\ (lastOp'.Op = "Subscribe" /\ Len(InOutPassCallbacks[lastOp'.Pass]) > 0)
              => InOutPassCallbacks' = InOutPassCallbacks
      ]_vars

C11_Witness ==
    /\ lastOp.Op = "Subscribe"
    /\ lastOp.Exit = "AlreadySubscribed"
    /\ InOutPassCallbacks[lastOp.Pass] = <<"ClassicBloom">>

\* the accumulation passes of a frame, in issue order
AccumulatePasses(f) == SelectSeq(f.Passes, LAMBDA p : p.Name = "GlareAccumulate")

\* the streak count after clamping, K in 2..16
ClampedStreakCount(f) ==
    IF f.Comp.GlareStreakCount < 2 THEN 2
    ELSE IF f.Comp.GlareStreakCount > 16 THEN 16 ELSE f.Comp.GlareStreakCount

\* the textures the frame created
CreatedTextures(f) == {f.Textures[i].Tex : i \in 1..Len(f.Textures)}

\* C12: for every streak count K in 2..16 after clamping, each of the four
\* slots of every accumulation pass holds a texture the frame created; every
\* streak it names has an index in 0..K-1; and in the first pass a slot with
\* no streak of its own (slot j >= K) holds streak 0.
C12_StreakIndexSafety ==
    (frame # NoFrame /\ frame.Exit = "Rendered" /\ AccumulatePasses(frame) # <<>>)
    => LET K == ClampedStreakCount(frame)
           acc == AccumulatePasses(frame)
       IN /\ K \in 2..16
          /\ \A i \in 1..Len(acc) :
                /\ Len(acc[i].Reads) = 4
                /\ \A j \in 1..4 :
                      /\ acc[i].Reads[j] \in CreatedTextures(frame)
                      /\ acc[i].Reads[j].Name \in
                             {"ClassicBloom.Streak", "ClassicBloom.GlareAccum"}
                      /\ acc[i].Reads[j].Name = "ClassicBloom.Streak"
                             => acc[i].Reads[j].Idx \in 0..(K - 1)
          /\ \A j \in 1..4 :
                acc[1].Reads[j] = IF j - 1 < K THEN StreakTexture(j - 1)
                                               ELSE StreakTexture(0)

C12_Witness ==
    /\ frame # NoFrame
    /\ frame.Exit = "Rendered"
    /\ frame.Comp.GlareStreakCount <= 2
    /\ AccumulatePasses(frame) # <<>>
    /\ AccumulatePasses(frame)[1].Reads[3] = StreakTexture(0)

\* the value of x |-> x * scale + bias at the integer x
ApplyAxis(scale, bias, x) == FracAdd(FracMul(scale, Frac(x, 1)), bias)

\* where a texture's valid pixels are: the source buffer's own extent and
\* rectangle, or the extent the frame created the texture with and the
\* rectangle drawn by the pass that wrote it
ActualViewport(f, tex) ==
    IF tex = SceneColorTex THEN Viewport(f.In.Extent, f.In.ViewRect)
    ELSE LET t == CHOOSE i \in 1..Len(f.Textures) : f.Textures[i].Tex = tex
             w == CHOOSE i \in 1..Len(f.Passes) : f.Passes[i].Target = tex
         IN Viewport(f.Textures[t].Extent, f.Passes[w].Rect)

\* T takes the corners of the rectangle dest to the corners of src.Rect as
\* fractions of src.Extent
MapsCorners(T, dest, src) ==
    /\ FracEq(ApplyAxis(T.Scale.X, T.Bias.X, dest.Min.X), Frac(src.Rect.Min.X, src.Extent.X))
    /\ FracEq(ApplyAxis(T.Scale.X, T.Bias.X, dest.Max.X), Frac(src.Rect.Max.X, src.Extent.X))
    /\ FracEq(ApplyAxis(T.Scale.Y, T.Bias.Y, dest.Min.Y), Frac(src.Rect.Min.Y, src.Extent.Y))
    /\ FracEq(ApplyAxis(T.Scale.Y, T.Bias.Y, dest.Max.Y), Frac(src.Rect.Max.Y, src.Extent.Y))

\* C13: in every pass that samples one buffer while drawing into another
\* (bright pass, each Kawase downsample level, composite from the source and
\* from the bloom result) the transform handed to the program takes the four
\* corners of the rectangle the pass draws to the four corners of the valid
\* rectangle of the texture it reads, as fractions of that texture's extent.
C13_TransformCorrectness ==
    frame # NoFrame
    => \A i \in 1..Len(frame.Passes) :
          LET p == frame.Passes[i]
          IN /\ p.Name = "BrightPass" =>
                   MapsCorners(p.Params.SvPositionToInputTextureUV, p.Rect,
                               ActualViewport(frame, p.Reads[1]))
             /\ p.Name = "KawaseDownsample_Mip" =>
                   MapsCorners(p.Params.SvPositionToSourceUV, p.Rect,
                               ActualViewport(frame, p.Reads[1]))
             /\ p.Name = "CompositeBloom" =>
                   /\ MapsCorners(p.Params.SvPositionToSceneColorUV, p.Rect,
                                  ActualViewport(frame, p.Reads[1]))
                   /\ MapsCorners(p.Params.SvPositionToBloomUV, p.Rect,
                                  ActualViewport(frame, p.Reads[2]))

C13_Witness ==
    /\ frame # NoFrame
    /\ frame.Exit = "Rendered"
    /\ frame.Comp.BloomMode = "Kawase"
    /\ frame.In.ViewRect.Min.X >= 1
    /\ frame.In.Extent.X > frame.In.ViewRect.Max.X
    /\ frame.In.OverrideOutput.Valid
    /\ frame.In.OverrideOutput.ViewRect.Min # frame.In.ViewRect.Min
    /\ Width(frame.In.ViewRect) >= 3

\* C14: whenever the composite pass is issued it is the frame's last pass and
\* the only composite; it writes the caller's override target if that is
\* valid, otherwise a texture created in this frame with the source texture's
\* extent, over the source's valid rectangle; it draws exactly the output
\* target's rectangle; the call returns that target with that rectangle; and
\* no pass of any frame has the source buffer as its render target.
C14_OutputTarget ==
    frame # NoFrame
    => /\ \A i \in 1..Len(frame.Passes) : frame.Passes[i].Target # SceneColorTex
       /\ (\E i \in 1..Len(frame.Passes) : frame.Passes[i].Name = "CompositeBloom")
          => LET n == Len(frame.Passes)
                 p == frame.Passes[n]
                 ov == frame.In.OverrideOutput
             IN /\ p.Name = "CompositeBloom"
                /\ \A i \in 1..(n - 1) : frame.Passes[i].Name # "CompositeBloom"
                /\ IF ov.Valid
                   THEN /\ p.Target = OverrideTex
                        /\ p.Rect = ov.ViewRect
                        /\ OutputTexture \notin CreatedTextures(frame)
                   ELSE /\ p.Target = OutputTexture
                        /\ p.Rect = frame.In.ViewRect
                        /\ \E i \in 1..Len(frame.Textures) :
                              frame.Textures[i] = Texture(OutputTexture, frame.In.Extent)
                /\ frame.Ret = ScreenPassTexture(p.Target, p.Rect)
                /\ frame.Exit = "Rendered"

C14_Witness ==
    /\ frame # NoFrame
    /\ frame.Exit = "Rendered"
    /\ frame.In.OverrideOutput.Valid
    /\ frame.In.OverrideOutput.ViewRect # frame.In.ViewRect
    /\ frame.Ret.Texture = OverrideTex
    /\ frame.Comp.BloomMode = "DirectionalGlare"

\* a pass without its parameter block: name, program and read/write wiring
Wiring(p) ==
    [Name |-> p.Name, Idx |-> p.Idx, Shader |-> p.Shader, Reads |-> p.Reads,
     Target |-> p.Target, Rect |-> p.Rect]

\* C15: for the same configuration values a SoftFocus frame has the textures
\* and passes of the Standard frame, with the same wiring and parameters,
\* except that the bright-pass threshold is 0.01 instead of the configured
\* threshold and the composite's bloom-intensity channel is 0 while its
\* soft-focus channel carries the configured intensity; in every other mode
\* the bloom-intensity channel carries the configured intensity and the
\* soft-focus channel is 0.
C15_SoftFocusEquivalence ==
    frame # NoFrame
    => /\ frame.Comp.BloomMode = "SoftFocus" =>
             LET std == StandardGraphOf(frame)
             IN /\ frame.Exit = std.Exit
                /\ frame.Ret = std.Ret
                /\ frame.Textures = std.Textures
                /\ Len(frame.Passes) = Len(std.Passes)
                /\ \A i \in 1..Len(frame.Passes) :
                      LET p == frame.Passes[i]
                          q == std.Passes[i]
                      IN /\ Wiring(p) = Wiring(q)
                         /\ IF p.Name = "BrightPass"
                            THEN /\ p.Params.BloomThreshold = 1
                                 /\ q.Params.BloomThreshold = frame.Comp.BloomThreshold
                                 /\ [p.Params EXCEPT !.BloomThreshold = 0]
                                        = [q.Params EXCEPT !.BloomThreshold = 0]
                            ELSE IF p.Name = "CompositeBloom"
                            THEN /\ p.Params.BloomIntensity = 0
                                 /\ p.Params.SoftFocusIntensity = frame.Comp.BloomIntensity
                                 /\ [p.Params EXCEPT !.BloomIntensity = 0,
                                                     !.SoftFocusIntensity = 0]
                                        = [q.Params EXCEPT !.BloomIntensity = 0,
                                                           !.SoftFocusIntensity = 0]
                            ELSE p.Params = q.Params
       /\ frame.Comp.BloomMode # "SoftFocus" =>
             \A i \in 1..Len(frame.Passes) :
                 frame.Passes[i].Name = "CompositeBloom" =>
                     /\ frame.Passes[i].Params.BloomIntensity = frame.Comp.BloomIntensity
                     /\ frame.Passes[i].Params.SoftFocusIntensity = 0

C15_Witness ==
    /\ frame # NoFrame
    /\ frame.Exit = "Rendered"
    /\ frame.Comp.BloomMode = "SoftFocus"
    /\ frame.Comp.BlurPasses = 3
    /\ frame.In.Shaders = ShaderNames
    /\ frame.Comp.BloomThreshold # 1
    /\ frame.Comp.BloomIntensity > 0

\* the frame's graph is the graph of mode m at each of its three decisions:
\* the bright-pass threshold, the blur strategy and the composite's channel
GraphIsOfMode(f, m) ==
    LET n == Len(f.Passes)
        names == {f.Passes[i].Name : i \in 1..n}
    IN /\ f.Passes[1].Params.BloomThreshold =
              IF m = "SoftFocus" THEN 1 ELSE f.Comp.BloomThreshold
       /\ ("GlareStreak" \in names) <=> (m = "DirectionalGlare")
       /\ ("KawaseDownsample_Mip" \in names) <=> (m = "Kawase")
       /\ ("BlurHorizontal" \in names) <=> (m \in {"Standard", "SoftFocus"})
       /\ f.Passes[n].Params.BloomIntensity =
              IF m = "SoftFocus" THEN 0 ELSE f.Comp.BloomIntensity
       /\ f.Passes[n].Params.SoftFocusIntensity =
              IF m = "SoftFocus" THEN f.Comp.BloomIntensity ELSE 0

\* C16: every graph built with all programs available is, at the threshold,
\* at the blur strategy and at the composite's intensity channel, the graph of
\* one and the same mode, also when the owner edits BloomMode while the
\* rendering thread builds the graph.
C16_ModeSelectedOncePerFrame ==
    (frame # NoFrame /\ frame.Exit = "Rendered" /\ frame.In.Shaders = ShaderNames)
    => \E m \in BloomModes : GraphIsOfMode(frame, m)


\* the positions in the frame's pass list of the standard chain's passes
BlurChainPositions(f) ==
    {i \in 1..Len(f.Passes) : f.Passes[i].Name \in {"BlurHorizontal", "BlurVertical"}}

\* N: the configured BlurPasses brought into 1..4
ClampedBlurPasses(f) ==
    IF f.Comp.BlurPasses < 1 THEN 1
    ELSE IF f.Comp.BlurPasses > 4 THEN 4 ELSE f.Comp.BlurPasses

\* C17: whenever the standard chain produced the bloom result, its passes are
\* 2N consecutive entries of the pass list, N the configured BlurPasses brought
\* into 1..4: entry 2k-1 is horizontal, entry 2k vertical; the first horizontal
\* pass reads the bright-pass result and every later one the result buffer the
\* previous vertical pass wrote; every horizontal pass writes the temporary
\* buffer; every vertical pass reads the temporary buffer and writes the result
\* buffer; the result buffer is the bloom result the composite reads. A frame
\* whose bloom result is not the result buffer has no pass of the chain.
C17_StandardBlurChain ==
    frame # NoFrame =>
       LET P == BlurChainPositions(frame)
           N == ClampedBlurPasses(frame)
       IN IF frame.Blurred # BlurredTexture THEN P = {}
          ELSE \E first \in 1..Len(frame.Passes) :
                 /\ P = first..(first + 2 * N - 1)
                 /\ Cardinality(P) = 2 * N
                 /\ \A k \in 1..N :
                       LET hp == frame.Passes[first + 2 * k - 2]
                           vp == frame.Passes[first + 2 * k - 1]
                       IN /\ hp.Name = "BlurHorizontal"
                          /\ hp.Params.BlurDirection = "H"
                          /\ hp.Reads = <<IF k = 1 THEN BrightPassTexture
                                                   ELSE vp.Target>>
                          /\ hp.Target = BlurTempTexture
                          /\ vp.Name = "BlurVertical"
                          /\ vp.Params.BlurDirection = "V"
                          /\ vp.Reads = <<BlurTempTexture>>
                          /\ vp.Target = BlurredTexture
                 /\ BlurTempTexture # BlurredTexture
                 /\ BlurTempTexture # BrightPassTexture
                 /\ frame.Exit = "Rendered" =>
                       /\ BlurredTexture \in Range(frame.Passes[Len(frame.Passes)].Reads)
                       /\ \A i \in P : i < Len(frame.Passes)

\* three iterations configured in Standard mode: the second and third
\* horizontal passes read what the vertical pass before them wrote
C17_Witness ==
    /\ frame # NoFrame
    /\ frame.Exit = "Rendered"
    /\ frame.Comp.BloomMode = "Standard"
    /\ frame.Comp.BlurPasses = 3
    /\ Cardinality(BlurChainPositions(frame)) = 6
    /\ frame.Blurred = BlurredTexture


\* the slots (1..4) of accumulation pass p within its declared streak count
DeclaredSlots(p) == 1..Min(p.Params.NumStreaks, Len(p.Reads))

\* the streak indices pass p merges: its declared slots that hold a streak
MergedStreaks(p) ==
    {p.Reads[j].Idx : j \in {s \in DeclaredSlots(p) : p.Reads[s].Name = "ClassicBloom.Streak"}}

\* how many declared slots, over all accumulation passes, hold streak k
TimesMerged(f, k) ==
    LET acc == AccumulatePasses(f)
    IN Cardinality({<<i, j>> \in (1..Len(acc)) \X (1..4) :
                       /\ j \in DeclaredSlots(acc[i])
                       /\ acc[i].Reads[j] = StreakTexture(k)})

\* the streak slots merged before pass i
MergedBefore(f, i) ==
    LET acc == AccumulatePasses(f)
    IN UNION {MergedStreaks(acc[h]) : h \in 1..(i - 1)}

\* C18: in every frame that accumulates glare, with K the streak count brought
\* into 2..16: the first accumulation pass merges exactly the streaks
\* 0..min(K,4)-1; every later pass has the previous pass's output in its first
\* slot and merges the next one to three streaks not merged yet, three unless
\* fewer remain; every streak 0..K-1 stands in exactly one declared slot over
\* all passes; and the last pass's output is what the glare blur reads.
C18_GlareAccumulationCoversAllStreaks ==
    (frame # NoFrame /\ AccumulatePasses(frame) # <<>>)
    => LET K == ClampedStreakCount(frame)
           acc == AccumulatePasses(frame)
           n == Len(acc)
       IN /\ MergedStreaks(acc[1]) = 0..(Min(K, 4) - 1)
          /\ acc[1].Params.NumStreaks = Min(K, 4)
          /\ \A i \in 2..n :
                LET done == Cardinality(MergedBefore(frame, i))
                IN /\ acc[i].Reads[1] = acc[i - 1].Target
                   /\ acc[i].Target # acc[i - 1].Target
                   /\ done < K
                   /\ MergedStreaks(acc[i]) = done..(Min(K, done + 3) - 1)
                   /\ acc[i].Params.NumStreaks = 1 + Cardinality(MergedStreaks(acc[i]))
          /\ \A k \in 0..(K - 1) : TimesMerged(frame, k) = 1
          /\ MergedBefore(frame, n + 1) = 0..(K - 1)
          /\ \E i \in 1..Len(frame.Passes) :
                /\ frame.Passes[i].Name = "GlareBlurH"
                /\ frame.Passes[i].Reads = <<acc[n].Target>>

\* eight streaks: the first pass takes 0..3, one batch 4..6, a last batch 7
C18_Witness ==
    /\ frame # NoFrame
    /\ frame.Exit = "Rendered"
    /\ frame.Comp.GlareStreakCount = 8
    /\ Len(AccumulatePasses(frame)) = 3
    /\ MergedStreaks(AccumulatePasses(frame)[3]) = {7}


\* the extent the frame gave texture tex
ExtentOf(f, tex) ==
    f.Textures[CHOOSE i \in 1..Len(f.Textures) : f.Textures[i].Tex = tex].Extent

\* the indices of the mip buffers the frame created
MipLevels(f) ==
    {f.Textures[i].Tex.Idx : i \in {j \in 1..Len(f.Textures) :
                                       f.Textures[j].Tex.Name = "ClassicBloom.KawaseMip"}}

\* how many mip buffers the frame created
MipBuffersCreated(f) ==
    Cardinality({j \in 1..Len(f.Textures) : f.Textures[j].Tex.Name = "ClassicBloom.KawaseMip"})

\* the rectangle the frame draws level i with
MipRectOf(f, i) ==
    f.Passes[CHOOSE k \in 1..Len(f.Passes) :
        f.Passes[k].Name = "KawaseDownsample_Mip" /\ f.Passes[k].Idx = i].Rect

\* M: the configured KawaseMipCount brought into 3..8
ClampedMipCount(f) ==
    IF f.Comp.KawaseMipCount < 3 THEN 3
    ELSE IF f.Comp.KawaseMipCount > 8 THEN 8 ELSE f.Comp.KawaseMipCount

\* max(1, ceil(x / 2))
HalfRoundedUp(x) == IF CeilingOf(x, 2) < 1 THEN 1 ELSE CeilingOf(x, 2)

\* C19: in every frame that builds the Kawase mip chain, the bright-pass
\* extent has both dimensions >= 1 and, with M the configured mip count
\* brought into 3..8, exactly M mip buffers exist, levels 0..M-1; each level's
\* rectangle starts at (0,0) and has the size of the level's buffer; both
\* dimensions are >= 1; each dimension of level i is max(1, ceil(e / 2)) for e
\* the same dimension of level i-1 (of the bright-pass buffer for level 0);
\* and no dimension grows from one level to the next.
C19_KawaseMipChainGeometry ==
    (frame # NoFrame /\ MipLevels(frame) # {})
    => LET M == ClampedMipCount(frame)
           Prev(i) == IF i = 0 THEN ExtentOf(frame, BrightPassTexture)
                               ELSE ExtentOf(frame, MipTexture(i - 1))
       IN /\ ExtentOf(frame, BrightPassTexture).X >= 1
          /\ ExtentOf(frame, BrightPassTexture).Y >= 1
          /\ M \in 3..8
          /\ MipLevels(frame) = 0..(M - 1)
          /\ MipBuffersCreated(frame) = M
          /\ \A i \in 0..(M - 1) :
                LET e == ExtentOf(frame, MipTexture(i))
                    r == MipRectOf(frame, i)
                IN /\ r.Min = [X |-> 0, Y |-> 0]
                   /\ r.Max.X - r.Min.X = e.X
                   /\ r.Max.Y - r.Min.Y = e.Y
                   /\ e.X >= 1
                   /\ e.Y >= 1
                   /\ e.X = HalfRoundedUp(Prev(i).X)
                   /\ e.Y = HalfRoundedUp(Prev(i).Y)
                   /\ e.X <= Prev(i).X
                   /\ e.Y <= Prev(i).Y

\* eight levels below a bright-pass buffer 17 wide: 9, 5, 3, 2, 1, 1, 1, 1
C19_Witness ==
    /\ frame # NoFrame
    /\ frame.Exit = "Rendered"
    /\ MipLevels(frame) = 0..7
    /\ ExtentOf(frame, BrightPassTexture).X = 17
    /\ ExtentOf(frame, MipTexture(0)).X = 9
    /\ ExtentOf(frame, MipTexture(2)).X = 3
    /\ ExtentOf(frame, MipTexture(7)).X = 1


\* the Kawase downsample passes of a frame, in issue order
DownsamplePasses(f) == SelectSeq(f.Passes, LAMBDA p : p.Name = "KawaseDownsample_Mip")

\* the frame went past the bright pass in Kawase mode with both Kawase programs
KawaseChainBuilt(f) ==
    /\ f.Comp.BloomMode = "Kawase"
    /\ {"KawaseDownsamplePS", "KawaseUpsamplePS"} \subseteq f.In.Shaders
    /\ Len(f.Passes) >= 1
    /\ f.Passes[1].Name = "BrightPass"

\* C20: in every Kawase frame built with both Kawase programs, there is one
\* downsample pass per level 0..M-1, in level order; level 0 reads the source
\* buffer of the call through the viewport (source extent, source valid
\* rectangle); each level i >= 1 reads mip i-1 through mip i-1's viewport and
\* writes mip i; the averaging flag is 1 at level 0 and 0 at every other
\* level; and no pass after the bright pass reads the bright-pass result.
C20_KawaseDownsampleWiring ==
    (frame # NoFrame /\ KawaseChainBuilt(frame))
    => LET down == DownsamplePasses(frame)
           M == ClampedMipCount(frame)
       IN /\ Len(down) = M
          /\ \A i \in 1..M :
                /\ down[i].Idx = i - 1
                /\ down[i].Params.MipLevel = i - 1
                /\ down[i].Target = MipTexture(i - 1)
                /\ down[i].Params.bUseKarisAverage = IF i = 1 THEN 1 ELSE 0
                /\ IF i = 1
                   THEN /\ down[i].Reads = <<frame.In.SceneColorTexture>>
                        /\ down[i].Params.SourceViewport =
                               [Extent |-> frame.In.Extent, Rect |-> frame.In.ViewRect]
                   ELSE /\ down[i].Reads = <<MipTexture(i - 2)>>
                        /\ down[i].Params.SourceViewport = down[i - 1].Params.OutputViewport
          /\ \A k \in 2..Len(frame.Passes) :
                BrightPassTexture \notin Range(frame.Passes[k].Reads)
          /\ BrightPassTexture # frame.In.SceneColorTexture
          /\ frame.Blurred # BrightPassTexture

\* a Kawase frame of five levels that reached the composite
C20_Witness ==
    /\ frame # NoFrame
    /\ frame.Exit = "Rendered"
    /\ KawaseChainBuilt(frame)
    /\ Len(DownsamplePasses(frame)) = 5
    /\ DownsamplePasses(frame)[1].Params.bUseKarisAverage = 1
    /\ DownsamplePasses(frame)[5].Reads = <<MipTexture(3)>>


\* downsample level i (1-based position in issue order) has, in each
\* dimension, max(1, ceil(e / 2)) pixels for e the size of the valid
\* rectangle of the buffer it samples from
LevelHalvesItsSource(p) ==
    LET out == p.Params.OutputViewport.Rect
        src == p.Params.SourceViewport.Rect
    IN /\ p.Rect = out
       /\ out.Max.X - out.Min.X = HalfRoundedUp(src.Max.X - src.Min.X)
       /\ out.Max.Y - out.Min.Y = HalfRoundedUp(src.Max.Y - src.Min.Y)

\* C21: in every frame that issues the Kawase downsample passes, at every
\* downsample scale, each level, level 0 included, has half the pixel size,
\* rounded up and at least 1, of the valid rectangle of the buffer it samples.
C21_KawaseHalving ==
    (frame # NoFrame /\ DownsamplePasses(frame) # <<>>)
    => \A i \in 1..Len(DownsamplePasses(frame)) :
           LevelHalvesItsSource(DownsamplePasses(frame)[i])

\* the same for the levels below level 0 only
KawaseHalvingBelowLevel0 ==
    (frame # NoFrame /\ DownsamplePasses(frame) # <<>>)
    => \A i \in 2..Len(DownsamplePasses(frame)) :
           LevelHalvesItsSource(DownsamplePasses(frame)[i])

\* the same for level 0 at downsample scale 2.0 (divisor 1) only
KawaseHalvingAtFullResolution ==
    (frame # NoFrame /\ DownsamplePasses(frame) # <<>>
        /\ frame.Comp.DownsampleScale = ScaleMax)
    => LevelHalvesItsSource(DownsamplePasses(frame)[1])


\* the Kawase upsample passes of the chain, in issue order
UpsamplePasses(f) == SelectSeq(f.Passes, LAMBDA p : p.Name = "KawaseUpsample_Mip")

\* the targets of the passes issued before position k of the pass list
WrittenBefore(f, k) == {f.Passes[h].Target : h \in 1..(k - 1)}

\* the position in the pass list of the j-th upsample pass of the chain
UpsamplePosition(f, j) ==
    CHOOSE k \in 1..Len(f.Passes) :
        /\ f.Passes[k].Name = "KawaseUpsample_Mip"
        /\ Cardinality({h \in 1..k : f.Passes[h].Name = "KawaseUpsample_Mip"}) = j

\* C22: in every Kawase frame built with both Kawase programs, with M the mip
\* count brought into 3..8, the chain has exactly M-1 upsample passes, the
\* j-th for level M-1-j (levels M-2 down to 0 in issue order); the pass for
\* level M-2 reads downsample mip M-1, the pass for each lower level reads the
\* buffer the pass before it wrote; each pass also reads the downsample mip of
\* its own level; and each pass writes a buffer no earlier pass wrote, whose
\* extent is that of its level's mip and whose rectangle is the level's.
C22_KawaseUpsampleChain ==
    (frame # NoFrame /\ KawaseChainBuilt(frame))
    => LET up == UpsamplePasses(frame)
           M == ClampedMipCount(frame)
       IN /\ Len(up) = M - 1
          /\ \A j \in 1..(M - 1) :
                LET level == M - 1 - j
                IN /\ up[j].Idx = level
                   /\ Len(up[j].Reads) = 2
                   /\ up[j].Reads[1] = IF j = 1 THEN MipTexture(M - 1)
                                                ELSE up[j - 1].Target
                   /\ up[j].Reads[2] = MipTexture(level)
                   /\ up[j].Target \notin WrittenBefore(frame, UpsamplePosition(frame, j))
                   /\ up[j].Target # frame.In.SceneColorTexture
                   /\ ExtentOf(frame, up[j].Target) = ExtentOf(frame, MipTexture(level))
                   /\ up[j].Rect = MipRectOf(frame, level)

\* eight levels over a source 17 wide at full resolution: seven upsample
\* passes, the last for level 0 writing a buffer 9 wide
C22_Witness ==
    /\ frame # NoFrame
    /\ frame.Exit = "Rendered"
    /\ KawaseChainBuilt(frame)
    /\ Len(UpsamplePasses(frame)) = 7
    /\ UpsamplePasses(frame)[1].Reads[1] = MipTexture(7)
    /\ UpsamplePasses(frame)[7].Idx = 0
    /\ ExtentOf(frame, UpsamplePasses(frame)[7].Target).X = 9


\* the positions in the pass list of the final Kawase upsample
FinalUpsamplePositions(f) ==
    {k \in 1..Len(f.Passes) : f.Passes[k].Name = "KawaseUpsample_Final"}

\* C23: in every Kawase frame built with both Kawase programs, exactly one
\* final upsample pass follows the last pass of the upsample chain; it reads
\* the buffer the chain's last pass (level 0) wrote together with downsample
\* mip 0, and writes a buffer no earlier pass wrote, with the bright-pass
\* buffer's extent and the bright pass's rectangle; that buffer is the bloom
\* result, and the composite, when the frame reaches it, reads it.
C23_KawaseFinalPass ==
    (frame # NoFrame /\ KawaseChainBuilt(frame))
    => LET up == UpsamplePasses(frame)
           F == FinalUpsamplePositions(frame)
       IN /\ Cardinality(F) = 1
          /\ up # <<>>
          /\ \A k \in F :
                LET p == frame.Passes[k]
                IN /\ k = UpsamplePosition(frame, Len(up)) + 1
                   /\ up[Len(up)].Idx = 0
                   /\ p.Reads = <<up[Len(up)].Target, MipTexture(0)>>
                   /\ ExtentOf(frame, up[Len(up)].Target) = ExtentOf(frame, MipTexture(0))
                   /\ p.Target \notin WrittenBefore(frame, k)
                   /\ ExtentOf(frame, p.Target) = ExtentOf(frame, BrightPassTexture)
                   /\ p.Rect = frame.Passes[1].Rect
                   /\ frame.Blurred = p.Target
                   /\ frame.Exit = "Rendered" =>
                         /\ k = Len(frame.Passes) - 1
                         /\ p.Target \in Range(frame.Passes[Len(frame.Passes)].Reads)

\* a bright-pass buffer 17 wide over a level 0 that is 9 wide: the final pass
\* writes a 17-wide bloom result
C23_Witness ==
    /\ frame # NoFrame
    /\ frame.Exit = "Rendered"
    /\ KawaseChainBuilt(frame)
    /\ FinalUpsamplePositions(frame) # {}
    /\ ExtentOf(frame, MipTexture(0)).X = 9
    /\ ExtentOf(frame, frame.Blurred).X = 17


\* a view of a Game, Editor or PIE world with post-processing and rendering
\* on and wireframe off
EligibleView(v) ==
    /\ v.Family /\ v.Scene /\ v.World
    /\ v.WorldType \in {"Game", "Editor", "PIE"}
    /\ v.PostProcessing /\ v.Rendering /\ ~v.Wireframe

\* pass identifier p is the insertion point the first live enabled
\* configuration chose
ChosenInsertionPoint(p) ==
    /\ EnabledPositions # {}
    /\ comps[BloomComponents[FirstEnabledPos]].PostProcessPass = p

\* C24: a call of SubscribeToPostProcessingPass changes the callback arrays
\* only for an eligible view and only for the pass identifier the first live
\* enabled configuration chose, and then only by adding its callback to that
\* pass's array; every other call leaves every array as it was.
C24_SubscriptionEligibility ==
    [][lastOp'.Op = "Subscribe" =>
          IF InOutPassCallbacks' = InOutPassCallbacks THEN TRUE
          ELSE /\ EligibleView(lastOp'.View)
               /\ ChosenInsertionPoint(lastOp'.Pass)
               /\ InOutPassCallbacks' =
                      [InOutPassCallbacks EXCEPT ![lastOp'.Pass] = Append(@, "ClassicBloom")]
      ]_vars

\* the same, for views that have a scene with a world and sets that have a
\* live enabled configuration
SubscriptionEligibilityWithWorld ==
    [][(lastOp'.Op = "Subscribe" /\ lastOp'.View.Scene /\ lastOp'.View.World
            /\ EnabledPositions # {}) =>
          IF InOutPassCallbacks' = InOutPassCallbacks THEN TRUE
          ELSE /\ EligibleView(lastOp'.View)
               /\ ChosenInsertionPoint(lastOp'.Pass)
               /\ InOutPassCallbacks' =
                      [InOutPassCallbacks EXCEPT ![lastOp'.Pass] = Append(@, "ClassicBloom")]
      ]_vars


\* the composite pass of a frame that reached it
CompositeOf(f) == f.Passes[Len(f.Passes)]

\* the texture the composite is handed as BloomTexture
BloomTextureOf(f) == CompositeOf(f).Reads[2]

\* C25: in every frame that reaches the composite, in every mode and on
\* every fallback to the standard chain, the bloom texture handed to the
\* composite is not null, is BlurredBloomTexture, was created by the frame
\* and written by one of its passes, has the bright-pass buffer's extent,
\* which is the extent of the bloom viewport the composite's output-to-bloom
\* transform is built from, and the last pass that wrote it drew the bloom
\* viewport's rectangle; it is neither Kawase mip 0 nor the bright-pass
\* texture.
C25_BloomResultShape ==
    (frame # NoFrame /\ frame.Exit = "Rendered")
    => LET comp == CompositeOf(frame)
           b == BloomTextureOf(frame)
           writers == {k \in 1..(Len(frame.Passes) - 1) : frame.Passes[k].Target = b}
       IN /\ comp.Name = "CompositeBloom"
          /\ b # NullTex
          /\ b = frame.Blurred
          /\ b \in CreatedTextures(frame)
          /\ writers # {}
          /\ ExtentOf(frame, b) = ExtentOf(frame, BrightPassTexture)
          /\ comp.Params.BloomViewport.Extent = ExtentOf(frame, b)
          /\ \A k \in writers :
                (\A h \in writers : h <= k)
                    => frame.Passes[k].Rect = comp.Params.BloomViewport.Rect
          /\ comp.Params.SvPositionToBloomUV =
                 SvPositionToTextureUV(comp.Params.OutputViewport,
                                       [Extent |-> ExtentOf(frame, b),
                                        Rect |-> frame.Passes[1].Rect])
          /\ b # MipTexture(0)
          /\ b # BrightPassTexture

\* a Kawase frame with the mip count configured as 0, which the clamp turns
\* into three levels: the bloom result is the final upsample's buffer
C25_Witness ==
    /\ frame # NoFrame
    /\ frame.Exit = "Rendered"
    /\ frame.Comp.BloomMode = "Kawase"
    /\ frame.Comp.KawaseMipCount = 0
    /\ BloomTextureOf(frame) = KawaseBlurred


\* C26: in every graph built, whatever the exit, pass k reads only the
\* call's source buffer or targets of passes 1..k-1, never a null texture,
\* and never its own target.
C26_GraphWellFormed ==
    frame # NoFrame =>
       \A k \in 1..Len(frame.Passes) :
          \A t \in Range(frame.Passes[k].Reads) :
             /\ t # NullTex
             /\ t = frame.In.SceneColorTexture \/ t \in WrittenBefore(frame, k)
             /\ t # frame.Passes[k].Target

\* a glare frame without the accumulation program: the streak passes are
\* followed by the standard chain and the composite
C26_Witness ==
    /\ frame # NoFrame
    /\ frame.Exit = "Rendered"
    /\ frame.Comp.BloomMode = "DirectionalGlare"
    /\ "GlareAccumulatePS" \notin frame.In.Shaders
    /\ \E k \in 1..Len(frame.Passes) : frame.Passes[k].Name = "GlareStreak"
    /\ BloomTextureOf(frame) = BlurredTexture
    /\ frame.In.OverrideOutput # NoOverride


\* how many passes of the frame have the name
PassesNamed(f, name) ==
    Cardinality({k \in 1..Len(f.Passes) : f.Passes[k].Name = name})

\* C27: in every frame built with all programs available, whatever integers
\* BlurPasses, GlareStreakCount and KawaseMipCount are configured as, with N,
\* K and M the three brought into 1..4, 2..16 and 3..8: Standard and SoftFocus
\* add N horizontal and N vertical blur passes and 2N+2 passes in all;
\* DirectionalGlare adds K streak passes, 1 + ceil(max(0, K-4) / 3)
\* accumulation passes and the two light blur passes, and
\* K + 1 + ceil(max(0, K-4) / 3) + 4 passes in all; Kawase adds M downsample
\* passes, M-1 upsample passes and the final upsample, and 2M+2 passes in all.
C27_PassCountsUnderClamping ==
    (frame # NoFrame /\ frame.Exit = "Rendered" /\ frame.In.Shaders = ShaderNames)
    => LET N == ClampedBlurPasses(frame)
           K == ClampedStreakCount(frame)
           M == ClampedMipCount(frame)
           batches == CeilingOf(IF K > 4 THEN K - 4 ELSE 0, 3)
           total == Len(frame.Passes)
       IN /\ PassesNamed(frame, "BrightPass") = 1
          /\ PassesNamed(frame, "CompositeBloom") = 1
          /\ frame.Comp.BloomMode \in {"Standard", "SoftFocus"} =>
                /\ PassesNamed(frame, "BlurHorizontal") = N
                /\ PassesNamed(frame, "BlurVertical") = N
                /\ total = 2 * N + 2
          /\ frame.Comp.BloomMode = "DirectionalGlare" =>
                /\ PassesNamed(frame, "GlareStreak") = K
                /\ PassesNamed(frame, "GlareAccumulate") = 1 + batches
                /\ PassesNamed(frame, "GlareBlurH") = 1
                /\ PassesNamed(frame, "GlareBlurV") = 1
                /\ total = K + 1 + batches + 4
          /\ frame.Comp.BloomMode = "Kawase" =>
                /\ PassesNamed(frame, "KawaseDownsample_Mip") = M
                /\ PassesNamed(frame, "KawaseUpsample_Mip") = M - 1
                /\ PassesNamed(frame, "KawaseUpsample_Final") = 1
                /\ total = 2 * M + 2

\* the greatest int32 as streak count: 16 streaks, five accumulation passes,
\* 25 passes in all
C27_Witness ==
    /\ frame # NoFrame
    /\ frame.Exit = "Rendered"
    /\ frame.Comp.BloomMode = "DirectionalGlare"
    /\ frame.Comp.GlareStreakCount = MaxInt32
    /\ PassesNamed(frame, "GlareAccumulate") = 5
    /\ Len(frame.Passes) = 25


\* C28: over any sequence of OnRegister, BeginPlay, OnUnregister, EndPlay and
\* TickComponent calls on the components of a world, the registration array
\* never holds a component twice; right after an OnRegister or BeginPlay of a
\* component whose world has the subsystem the component is in the array, and
\* right after its OnUnregister or EndPlay it is not, however many register
\* calls came before.
C28_ComponentLifecycle ==
    /\ NoDuplicates(BloomComponents)
    /\ (lastOp.Op \in {"OnRegister", "BeginPlay"} /\ lastOp.HasSubsystem)
           => lastOp.Comp \in Range(BloomComponents)
    /\ (lastOp.Op \in {"OnUnregister", "EndPlay"} /\ lastOp.HasSubsystem)
           => lastOp.Comp \notin Range(BloomComponents)

\* an EndPlay that removed a component the other component is registered
\* after
C28_Witness ==
    /\ lastOp.Op = "EndPlay"
    /\ lastOp.HasSubsystem
    /\ lastOp.Comp = 1
    /\ BloomComponents = <<2>>


\* how many entries of the array are component c
Occurrences(arr, c) == Cardinality({i \in 1..Len(arr) : arr[i] = c})

\* the array without component c, order kept
Others(arr, c) == SelectSeq(arr, LAMBDA x : x # c)

\* C29: for every TickComponent call of a component whose world has the
\* subsystem: if the manual flag is set, or auto-reinitialize is on with a
\* positive interval and the timer plus the frame time reaches the interval,
\* then after the call the component is in the array exactly once, as its
\* last entry, the other entries are the same in the same order, the manual
\* flag is clear and, in the auto case, the timer is 0. If auto-reinitialize
\* is off or the interval is not positive, the timer is 0 after the call and,
\* with the manual flag clear, the array is as it was.
C29_ReinitializeTick ==
    [][(lastOp'.Op = "TickComponent" /\ lastOp'.HasSubsystem) =>
          LET c == lastOp'.Comp
              manual == comps[c].bReinitializeRect
              timing == comps[c].bAutoReinitializeRect /\ comps[c].ReinitializeInterval > 0
              autoDue == timing /\ comps[c].ReinitializeTimer + lastOp'.DeltaTime
                                       >= comps[c].ReinitializeInterval
          IN /\ (manual \/ autoDue) =>
                   /\ Len(BloomComponents') >= 1
                   /\ BloomComponents'[Len(BloomComponents')] = c
                   /\ Occurrences(BloomComponents', c) = 1
                   /\ Others(BloomComponents', c) = Others(BloomComponents, c)
                   /\ ~comps'[c].bReinitializeRect
                   /\ autoDue => comps'[c].ReinitializeTimer = 0
             /\ ~timing =>
                   /\ comps'[c].ReinitializeTimer = 0
                   /\ ~manual => BloomComponents' = BloomComponents
      ]_vars

\* an auto-reinitialize tick of component 1 that reached the interval, with
\* component 2 registered: component 1 is the last entry
C29_Witness ==
    /\ lastOp.Op = "TickComponent"
    /\ lastOp.HasSubsystem
    /\ lastOp.Comp = 1
    /\ lastOp.DeltaTime = 5
    /\ comps[1].bAutoReinitializeRect
    /\ comps[1].ReinitializeInterval = 10
    /\ comps[1].ReinitializeTimer = 0
    /\ BloomComponents = <<2, 1>>


\* C30: no call of SubscribeToPostProcessingPass reads through a null scene
\* or a null world, whatever the view family, scene, world, debug logging,
\* pass identifier and array contents; a call without a family returns at
\* once; a call without a scene or without a world goes on as a call with a
\* Game world would.
C30_NullWorldSafety ==
    lastOp.Op = "Subscribe" =>
       /\ ~lastOp.NullDeref
       /\ lastOp.Exit # "Fault"
       /\ ~lastOp.View.Family => lastOp.Exit = "NoFamily"
       /\ (lastOp.View.Family /\ ~(lastOp.View.Scene /\ lastOp.View.World))
              => lastOp.Exit # "WorldType"

\* the same for the calls of a set whose first live enabled component has
\* debug logging off, or that has no such component
NullWorldSafetyWithoutDebugLogging ==
    (lastOp.Op = "Subscribe" /\ ~EnableDebug(BloomComponents, alive, comps)) =>
       /\ ~lastOp.NullDeref
       /\ lastOp.Exit # "Fault"
       /\ ~lastOp.View.Family => lastOp.Exit = "NoFamily"
       /\ (lastOp.View.Family /\ ~(lastOp.View.Scene /\ lastOp.View.World))
              => lastOp.Exit # "WorldType"

\* the same for the calls whose view has no scene at all
NullWorldSafetyWithoutScene ==
    (lastOp.Op = "Subscribe" /\ ~lastOp.View.Scene) =>
       /\ ~lastOp.NullDeref
       /\ lastOp.Exit # "Fault"

====
